---- MODULE Spec2Model ----
(***************************************************************************)
(* Model of the .rterrain package format writer and reader                 *)
(* (qgis-plugin/src/exporters/rterrain_format.py).                         *)
(*                                                                         *)
(* Byte strings are sequences of runs.  A run [src, lo, hi] stands for     *)
(* bytes lo..hi of the byte string that `src` denotes: one fixed byte, the *)
(* text json.dumps produces for a document, the output of zlib.compress    *)
(* for a buffer, the buffer of an array, a caller's blob, a SHA-256        *)
(* digest, or one byte that was changed on disk.  Every length is the      *)
(* length the code produces, so offsets and the file size are those of the *)
(* real file.  Hash functions are taken to be injective: two digests are   *)
(* equal exactly when the hashed byte strings are equal.                   *)
(***************************************************************************)
EXTENDS Integers, Sequences, FiniteSets, TLC

(***************************************************************************)
(* Python values.  Fields of one name always hold values of one type.      *)
(***************************************************************************)
PNone == [t |-> "none"]
PBool(b) == [t |-> "bool", b |-> b]
PInt(n) == [t |-> "int", n |-> n]
PFloat(r) == [t |-> "float", repr |-> r]
PStr(s) == [t |-> "str", s |-> s]
PList(items) == [t |-> "list", items |-> items]
PTuple(items) == [t |-> "tuple", items |-> items]
\* A dict keeps insertion order: a sequence of [key, val] pairs.
PDict(pairs) == [t |-> "dict", pairs |-> pairs]
KV(k, v) == [key |-> k, val |-> v]
SKV(s, v) == [key |-> PStr(s), val |-> v]
\* hashlib.md5(b).hexdigest(): a 32-character string determined by b.
PMd5Hex(b) == [t |-> "md5hex", of |-> b]
PBytes(b) == [t |-> "bytes", data |-> b]
PArray(dtype, shape, elems) ==
    [t |-> "ndarray", dtype |-> dtype, shape |-> shape, elems |-> elems]

HasKey(d, k) == \E i \in 1..Len(d.pairs) : d.pairs[i].key = k
\* d[k] for a key that is present.
Item(d, k) == d.pairs[CHOOSE i \in 1..Len(d.pairs) : d.pairs[i].key = k].val
\* d[k] = v: a present key keeps its place, a new one is appended.
SetItem(d, k, v) ==
    IF HasKey(d, k)
    THEN PDict([i \in 1..Len(d.pairs) |->
                   IF d.pairs[i].key = k THEN KV(k, v) ELSE d.pairs[i]])
    ELSE PDict(Append(d.pairs, KV(k, v)))
Keys(d) == [i \in 1..Len(d.pairs) |-> d.pairs[i].key]
\* d[k1][k2] = v
SetItem2(d, k1, k2, v) == SetItem(d, k1, SetItem(Item(d, k1), k2, v))

RECURSIVE SumSeq(_)
SumSeq(s) == IF s = <<>> THEN 0 ELSE Head(s) + SumSeq(Tail(s))
RECURSIVE ProdSeq(_)
ProdSeq(s) == IF s = <<>> THEN 1 ELSE Head(s) * ProdSeq(Tail(s))

(***************************************************************************)
(* json.dumps / json.loads.                                                *)
(***************************************************************************)
\* What json.loads(json.dumps(v)) returns: a tuple is written as an array and
\* read as a list, a dict key that is not a string is written as its string.
RECURSIVE JsonNorm(_)
JsonNorm(v) ==
    CASE v.t \in {"list", "tuple"} ->
             PList([i \in 1..Len(v.items) |-> JsonNorm(v.items[i])])
      [] v.t = "dict" ->
             PDict([i \in 1..Len(v.pairs) |->
                 KV(IF v.pairs[i].key.t = "int"
                    THEN PStr(ToString(v.pairs[i].key.n))
                    ELSE v.pairs[i].key,
                    JsonNorm(v.pairs[i].val))])
      [] OTHER -> v

\* Length of the text json.dumps writes for document d at nesting level lvl
\* with the given indent (0: the compact form with ", " and ": ").
RECURSIVE JsonLen(_, _, _)
JsonLen(d, indent, lvl) ==
    LET nl(l) == IF indent = 0 THEN 0 ELSE 1 + indent * l
        sep == IF indent = 0 THEN 2 ELSE 1
        wrap(n, body) ==
            IF n = 0 THEN 2
            ELSE 2 + n * nl(lvl + 1) + (n - 1) * sep + nl(lvl) + body
    IN CASE d.t = "none" -> 4
         [] d.t = "bool" -> IF d.b THEN 4 ELSE 5
         [] d.t = "int" -> Len(ToString(d.n))
         [] d.t = "float" -> Len(d.repr)
         [] d.t = "str" -> Len(d.s) + 2
         [] d.t = "md5hex" -> 34
         [] d.t = "list" ->
                wrap(Len(d.items),
                     SumSeq([i \in 1..Len(d.items) |->
                                JsonLen(d.items[i], indent, lvl + 1)]))
         [] d.t = "dict" ->
                wrap(Len(d.pairs),
                     SumSeq([i \in 1..Len(d.pairs) |->
                                JsonLen(d.pairs[i].key, indent, lvl + 1) + 2
                                + JsonLen(d.pairs[i].val, indent, lvl + 1)]))

(***************************************************************************)
(* Byte strings.                                                           *)
(***************************************************************************)
U8(v) == [k |-> "u8", v |-> v]
JsonSrc(doc, indent) == [k |-> "json", doc |-> doc, indent |-> indent]
ZlibSrc(raw) == [k |-> "zlib", raw |-> raw]
NpBuf(dtype, elems) == [k |-> "npbuf", dtype |-> dtype, elems |-> elems]
Blob(id, n) == [k |-> "blob", id |-> id, n |-> n]
ShaSrc(b) == [k |-> "sha256", of |-> b]
\* The byte at place `at` of src after it was changed on disk.
FlipSrc(src, at) == [k |-> "flip", src |-> src, at |-> at]

\* numpy itemsize of the element types the model uses.
ItemSize(dtype) ==
    CASE dtype = "float32" -> 4
      [] dtype = "uint8" -> 1
      [] dtype = "object" -> 8

RECURSIVE SrcLen(_)
RECURSIVE BLen(_)
SrcLen(src) ==
    CASE src.k = "u8" -> 1
      [] src.k = "json" -> JsonLen(src.doc, src.indent, 0)
      \* zlib.compress(level=9) of a short buffer without repeats: the
      \* literals plus 8 bytes of framing (b'' -> 8, 3 bytes -> 11).
      [] src.k = "zlib" -> BLen(src.raw) + 8
      [] src.k = "npbuf" -> Len(src.elems) * ItemSize(src.dtype)
      [] src.k = "blob" -> src.n
      [] src.k = "sha256" -> 32
      [] src.k = "flip" -> 1
BLen(b) == IF b = <<>> THEN 0
           ELSE (Head(b).hi - Head(b).lo + 1) + BLen(Tail(b))

Whole(src) == IF SrcLen(src) = 0 THEN <<>>
              ELSE <<[src |-> src, lo |-> 1, hi |-> SrcLen(src)]>>

\* The first n bytes of b (all of b when it is shorter).
RECURSIVE BTake(_, _)
BTake(b, n) ==
    IF n <= 0 \/ b = <<>> THEN <<>>
    ELSE LET r == Head(b)
             l == r.hi - r.lo + 1
         IN IF l <= n THEN <<r>> \o BTake(Tail(b), n - l)
            ELSE <<[r EXCEPT !.hi = r.lo + n - 1]>>
\* b without its first n bytes.
RECURSIVE BDrop(_, _)
BDrop(b, n) ==
    IF n <= 0 \/ b = <<>> THEN b
    ELSE LET r == Head(b)
             l == r.hi - r.lo + 1
         IN IF l <= n THEN BDrop(Tail(b), n - l)
            ELSE <<[r EXCEPT !.lo = r.lo + n]>> \o Tail(b)
\* f.seek(pos); f.read(n): at most n bytes from offset pos.
BRead(b, pos, n) == BTake(BDrop(b, pos), n)

\* struct.pack('<I', n)
PackU32(n) ==
    <<[src |-> U8(n % 256), lo |-> 1, hi |-> 1],
      [src |-> U8((n \div 256) % 256), lo |-> 1, hi |-> 1],
      [src |-> U8((n \div 65536) % 256), lo |-> 1, hi |-> 1],
      [src |-> U8((n \div 16777216) % 256), lo |-> 1, hi |-> 1]>>

(***************************************************************************)
(* The writer.                                                             *)
(***************************************************************************)
MAGIC_NUMBER ==
    <<[src |-> U8(82), lo |-> 1, hi |-> 1], [src |-> U8(84), lo |-> 1, hi |-> 1],
      [src |-> U8(69), lo |-> 1, hi |-> 1], [src |-> U8(82), lo |-> 1, hi |-> 1]>>
VERSION == 1
\* The mode create_package opens the output file in.
OpenMode == "wb"
\* Whether a stream opened in the mode supports read().
Readable(mode) == mode \in {"rb", "w+b", "r+b"}

\* project_info.get(key, default)
Get(d, key, default) == IF HasKey(d, PStr(key)) THEN Item(d, PStr(key)) ELSE default

RECURSIVE MinSeq(_)
MinSeq(s) == IF Len(s) = 1 THEN s[1]
             ELSE LET m == MinSeq(Tail(s)) IN IF s[1] < m THEN s[1] ELSE m
RECURSIVE MaxSeq(_)
MaxSeq(s) == IF Len(s) = 1 THEN s[1]
             ELSE LET m == MaxSeq(Tail(s)) IN IF s[1] > m THEN s[1] ELSE m
\* float(n) of a whole number, by its repr.
FloatOf(n) == PFloat(ToString(n) \o ".0")
IntList(s) == PList([i \in 1..Len(s) |-> PInt(s[i])])

\* datetime.now().isoformat() at clock tick c.
IsoFormat(c) == PStr("2025-01-01T00:00:00.00000" \o ToString(c))

\* A header literal that stamps the time of the call into plugin_version too.
HeaderBaseStamped(project_info, now) ==
    PDict(<<
      SKV("format", PStr("RealTerrain Package")),
      SKV("version", PInt(VERSION)),
      SKV("created", IsoFormat(now)),
      SKV("plugin_version", IsoFormat(now)),
      SKV("project", PDict(<<
          SKV("name", Get(project_info, "name", PStr("Unnamed"))),
          SKV("profile", Get(project_info, "profile", PStr("custom"))),
          SKV("location", Get(project_info, "location", PStr("Unknown"))),
          SKV("bbox", Get(project_info, "bbox",
                          PList(<<PInt(0), PInt(0), PInt(0), PInt(0)>>))),
          SKV("area_km2", Get(project_info, "area_km2", PInt(0)))>>)),
      SKV("terrain", PDict(<<
          SKV("resolution_m", Get(project_info, "resolution", PInt(30))),
          SKV("coordinate_system", PStr("WGS84"))>>)),
      SKV("content", PDict(<<>>)),
      SKV("ue5", PDict(<<
          SKV("recommended_lod_levels", PInt(5)),
          SKV("nanite_recommended", PBool(FALSE))>>)),
      SKV("data_blocks", PList(<<>>))>>)

\* The header literal of _create_header.
HeaderBase(project_info, now) ==
    PDict(<<
      SKV("format", PStr("RealTerrain Package")),
      SKV("version", PInt(VERSION)),
      SKV("created", IsoFormat(now)),
      SKV("plugin_version", PStr("1.0.0")),
      SKV("project", PDict(<<
          SKV("name", Get(project_info, "name", PStr("Unnamed"))),
          SKV("profile", Get(project_info, "profile", PStr("custom"))),
          SKV("location", Get(project_info, "location", PStr("Unknown"))),
          SKV("bbox", Get(project_info, "bbox",
                          PList(<<PInt(0), PInt(0), PInt(0), PInt(0)>>))),
          SKV("area_km2", Get(project_info, "area_km2", PInt(0)))>>)),
      SKV("terrain", PDict(<<
          SKV("resolution_m", Get(project_info, "resolution", PInt(30))),
          SKV("coordinate_system", PStr("WGS84"))>>)),
      SKV("content", PDict(<<>>)),
      SKV("ue5", PDict(<<
          SKV("recommended_lod_levels", PInt(5)),
          SKV("nanite_recommended", PBool(FALSE))>>)),
      SKV("data_blocks", PList(<<>>))>>)

\* header["data_blocks"].append(name)
AppendBlockName(h, name) ==
    SetItem(h, PStr("data_blocks"),
            PList(Append(Item(h, PStr("data_blocks")).items, PStr(name))))

RECURSIVE AppendMaterialNames(_, _)
AppendMaterialNames(h, names) ==
    IF names = <<>> THEN h
    ELSE AppendMaterialNames(AppendBlockName(h, "material_" \o Head(names).s),
                             Tail(names))

HeaderHeightmap(h, heightmap) ==
    IF heightmap = PNone THEN h
    ELSE LET h1 == SetItem2(h, PStr("terrain"), PStr("heightmap_size"),
                            IntList(heightmap.shape))
             h2 == SetItem2(h1, PStr("terrain"), PStr("min_elevation"),
                            FloatOf(MinSeq(heightmap.elems)))
             h3 == SetItem2(h2, PStr("terrain"), PStr("max_elevation"),
                            FloatOf(MaxSeq(heightmap.elems)))
             h4 == SetItem2(h3, PStr("content"), PStr("heightmap"), PBool(TRUE))
         IN AppendBlockName(h4, "heightmap")

HeaderSatellite(h, satellite) ==
    IF satellite = PNone THEN h
    ELSE LET h1 == SetItem(h, PStr("textures"), PDict(<<
                      SKV("satellite_format", PStr("JPEG")),
                      SKV("satellite_size_bytes", PInt(BLen(satellite.data))),
                      SKV("compression", PStr("high"))>>))
             h2 == SetItem2(h1, PStr("content"), PStr("satellite"), PBool(TRUE))
         IN AppendBlockName(h2, "satellite")

\* header["textures"]["material_layers"] = ... raises KeyError when no
\* "textures" entry was made, which only the satellite branch makes.
MaterialsRaises(h, materials) ==
    materials # PNone /\ ~HasKey(h, PStr("textures"))

HeaderMaterials(h, materials) ==
    IF materials = PNone THEN h
    ELSE LET h1 == SetItem2(h, PStr("textures"), PStr("material_layers"),
                            PList(Keys(materials)))
             h2 == SetItem2(h1, PStr("content"), PStr("materials"), PBool(TRUE))
         IN AppendMaterialNames(h2, Keys(materials))

HeaderOsm(h, osm_data) ==
    IF osm_data = PNone THEN h
    ELSE AppendBlockName(
           SetItem2(h, PStr("content"), PStr("osm_objects"),
                    PInt(Len(Get(osm_data, "objects", PList(<<>>)).items))),
           "osm_data")

HeaderVegetation(h, vegetation) ==
    IF vegetation = PNone THEN h
    ELSE AppendBlockName(
           SetItem2(h, PStr("content"), PStr("vegetation_spawns"),
                    PInt(Len(Get(vegetation, "spawns", PList(<<>>)).items))),
           "vegetation")

HeaderTactical(h, tactical) ==
    IF tactical = PNone THEN h
    ELSE AppendBlockName(
           SetItem2(h, PStr("content"), PStr("tactical_analysis"), PBool(TRUE)),
           "tactical")

\* _create_header: [exc, header]; exc = "none" when it returns.  The
\* statements run in order, each on the dict the one before left: h \in {e}
\* names the value of e.
CreateHeader(a, now) ==
    CHOOSE r \in
      { IF MaterialsRaises(h2, a.materials)
        THEN [exc |-> "KeyError", header |-> h2]
        ELSE [exc |-> "none",
              header |-> CHOOSE h6 \in
                { HeaderTactical(h5, a.tactical) :
                  h5 \in { HeaderVegetation(h4, a.vegetation) :
                  h4 \in { HeaderOsm(h3, a.osm_data) :
                  h3 \in { HeaderMaterials(h2, a.materials) } } } } : TRUE]
        : h2 \in { HeaderSatellite(h1, a.satellite) :
          h1 \in { HeaderHeightmap(h0, a.heightmap) :
          h0 \in { HeaderBase(a.project_info, now) } } } } : TRUE


\* What _write_data_block makes of its payload: the raw buffer and the
\* type, dtype and shape it records.
EncodePayload(data) ==
    CASE data.t = "ndarray" ->
             [raw |-> Whole(NpBuf(data.dtype, data.elems)), type |-> "numpy",
              dtype |-> PStr(data.dtype), shape |-> IntList(data.shape)]
      [] data.t = "bytes" ->
             [raw |-> data.data, type |-> "bytes", dtype |-> PNone, shape |-> PNone]
      [] OTHER ->
             [raw |-> Whole(JsonSrc(JsonNorm(data), 0)), type |-> "json",
              dtype |-> PNone, shape |-> PNone]

\* zlib.compress(data_bytes, level=9)
Compress(raw) == Whole(ZlibSrc(raw))

\* A digest taken of the uncompressed buffer.
BlockChecksumOfRaw(raw, compressed) == PMd5Hex(raw)
\* The digest _write_data_block stores for a buffer and its compressed form.
BlockChecksum(raw, compressed) == PMd5Hex(compressed)

\* The block_header dict of _write_data_block.
BlockHeader(name, data) ==
    LET e == EncodePayload(data)
        compressed == Compress(e.raw)
    IN PDict(<<
         SKV("name", PStr(name)),
         SKV("type", PStr(e.type)),
         SKV("dtype", e.dtype),
         SKV("shape", e.shape),
         SKV("uncompressed_size", PInt(BLen(e.raw))),
         SKV("compressed_size", PInt(BLen(compressed))),
         SKV("compression", PStr("zlib")),
         SKV("checksum", BlockChecksum(e.raw, compressed))>>)

\* The bytes _write_data_block appends to the stream.
BlockBytes(name, data) ==
    LET hdr == Whole(JsonSrc(BlockHeader(name, data), 0))
    IN PackU32(BLen(hdr)) \o hdr \o Compress(EncodePayload(data).raw)

\* The entry _write_data_block records for a block written at start_pos.
IndexEntry(name, data, start_pos) ==
    LET e == EncodePayload(data)
    IN PDict(<<
         SKV("offset", PInt(start_pos)),
         SKV("size", PInt(BLen(BlockBytes(name, data)))),
         SKV("type", PStr(e.type)),
         SKV("compressed_size", PInt(BLen(Compress(e.raw)))),
         SKV("uncompressed_size", PInt(BLen(e.raw)))>>)

\* _write_data_block on a stream state w = [data, index]: f.tell() is the
\* length of what was written, the output is opened empty by 'wb'.
WriteDataBlock(w, name, data) ==
    [data |-> w.data \o BlockBytes(name, data),
     index |-> SetItem(w.index, PStr(name), IndexEntry(name, data, BLen(w.data)))]

\* The [name, data] pairs step 4 of create_package passes to
\* _write_data_block, in the order of its if statements.
IfPresent(name, data) ==
    IF data = PNone THEN <<>> ELSE <<[name |-> name, data |-> data]>>

MaterialBlocks(materials) ==
    IF materials = PNone THEN <<>>
    ELSE [i \in 1..Len(materials.pairs) |->
            [name |-> "material_" \o materials.pairs[i].key.s,
             data |-> materials.pairs[i].val]]

Blocks(a) ==
    IfPresent("heightmap", a.heightmap) \o IfPresent("satellite", a.satellite)
    \o MaterialBlocks(a.materials) \o IfPresent("osm_data", a.osm_data)
    \o IfPresent("vegetation", a.vegetation) \o IfPresent("tactical", a.tactical)
    \o IfPresent("profile", a.profile_config)

\* The stream state after blocks[i..] were written one after the other.
RECURSIVE WriteFrom(_, _, _)
WriteFrom(w, blocks, i) ==
    IF i > Len(blocks) THEN w
    ELSE CHOOSE r \in
           { WriteFrom(w1, blocks, i + 1) :
             w1 \in { WriteDataBlock(w, blocks[i].name, blocks[i].data) } } : TRUE

\* A writer that serialises the header before the block names were added.
HeaderBytesStale(header) ==
    Whole(JsonSrc(JsonNorm(SetItem(header, PStr("data_blocks"), PList(<<>>))), 2))
\* json.dumps(self.header, indent=2).encode('utf-8')
HeaderBytes(header) == Whole(JsonSrc(JsonNorm(header), 2))

\* Steps 1-4 of create_package: magic, version, header and the blocks.
WriteBlocks(a, header, index0) ==
    CHOOSE r \in
      { WriteFrom([data |-> MAGIC_NUMBER \o PackU32(VERSION)
                              \o PackU32(BLen(hb)) \o hb,
                   index |-> index0], bs, 1) :
        hb \in { HeaderBytes(header) }, bs \in { Blocks(a) } } : TRUE

\* Step 5 of create_package: the index record.
WriteIndex(w) ==
    CHOOSE r \in { [w EXCEPT !.data = w.data \o PackU32(BLen(ib)) \o ib] :
                   ib \in { Whole(JsonSrc(JsonNorm(w.index), 0)) } } : TRUE

\* _write_checksum on a stream opened in `mode` holding `data`:
\* [exc, data].  The loop body f.read(8192) runs when end_pos > 0 and raises
\* io.UnsupportedOperation on a stream that is not readable.
WriteChecksum(mode, data) ==
    IF BLen(data) > 0 /\ ~Readable(mode)
    THEN [exc |-> "UnsupportedOperation", data |-> data]
    ELSE [exc |-> "none", data |-> data \o Whole(ShaSrc(data))]

\* create_package(a) on an instance whose index is index0, at clock tick now:
\* the exception that escapes ("none": it returns), the header and index the
\* instance is left with (noheader: self.header was not assigned), and the
\* file left on disk (nofile: the output was never opened).
CreatePackageResult(a, index0, now) ==
    CHOOSE r \in
      { IF ch.exc # "none"
        THEN [exc |-> ch.exc, noheader |-> TRUE, header |-> ch.header,
              index |-> index0, nofile |-> TRUE, data |-> <<>>]
        ELSE CHOOSE q \in
               { LET ck == WriteChecksum(OpenMode, w.data)
                 IN [exc |-> ck.exc, noheader |-> FALSE, header |-> ch.header,
                     index |-> w.index, nofile |-> FALSE, data |-> ck.data] :
                 w \in { WriteIndex(WriteBlocks(a, ch.header, index0)) } } : TRUE
        : ch \in { CreateHeader(a, now) } } : TRUE


(***************************************************************************)
(* The reader.                                                             *)
(***************************************************************************)
\* Length of the trailing digest the block scan leaves room for.
CHECKSUM_ROOM == 32
\* A candidate block header length above this is taken for the index.
MAX_BLOCK_HEADER == 100000

\* Readers that test only that four bytes were read, that take every
\* version from the supported one on, and that take a length above 100 for
\* the index.
MagicOkLoose(magic) == BLen(magic) = 4
VersionOkAtLeast(version) == version >= VERSION
IsBoundaryTight(block_header_len) == block_header_len > 100

\* The tests read_package makes of the magic, the version, a candidate
\* block header length and a block's digest.
MagicOk(magic) == magic = MAGIC_NUMBER
VersionOk(version) == version = VERSION
IsBoundary(block_header_len) == block_header_len > MAX_BLOCK_HEADER

IsU8Run(r) == r.src.k = "u8"
\* The largest length the model counts to.  A larger unpacked value is held
\* as this one: it exceeds VERSION, MAX_BLOCK_HEADER and every file length.
HUGE == 2147483647
\* struct.unpack('<I', b)[0]: ok is FALSE (struct.error) unless b has exactly
\* 4 bytes.  opaque: a byte of b is not a byte of a packed integer, and n
\* stands for a value the model does not know.
UnpackU32(b) ==
    IF BLen(b) # 4 THEN [ok |-> FALSE, opaque |-> FALSE, n |-> 0]
    ELSE IF \A i \in 1..4 : IsU8Run(b[i])
         THEN [ok |-> TRUE, opaque |-> FALSE,
               n |-> IF b[4].src.v >= 128 THEN HUGE
                     ELSE b[1].src.v + 256 * b[2].src.v + 65536 * b[3].src.v
                          + 16777216 * b[4].src.v]
         ELSE [ok |-> TRUE, opaque |-> TRUE, n |-> HUGE]

IsWhole(b, kind) ==
    /\ Len(b) = 1
    /\ b[1].src.k = kind
    /\ b[1].lo = 1
    /\ b[1].hi = SrcLen(b[1].src)
\* json.loads(b.decode('utf-8')): ok is FALSE (UnicodeDecodeError or
\* JSONDecodeError, both ValueError) unless b is the whole text of a document.
JsonLoads(b) ==
    IF IsWhole(b, "json") THEN [ok |-> TRUE, doc |-> b[1].src.doc]
    ELSE [ok |-> FALSE, doc |-> PNone]
\* zlib.decompress(b): ok is FALSE (zlib.error) unless b is a whole stream.
Decompress(b) ==
    IF IsWhole(b, "zlib") THEN [ok |-> TRUE, raw |-> b[1].src.raw]
    ELSE [ok |-> FALSE, raw |-> <<>>]

\* np.frombuffer(raw, dtype=dtype).reshape(shape): ok is FALSE (ValueError or
\* TypeError) for an element type that cannot be built from a buffer, a buffer
\* that is no whole number of elements, or a shape of another size.  opaque:
\* the buffer is not the buffer of an array of this element type, and the
\* elements are values the model does not know.
FromBuffer(raw, dtype, shape) ==
    IF \/ dtype.t # "str" \/ shape.t # "list"
    THEN [ok |-> FALSE, opaque |-> FALSE, val |-> PNone]
    ELSE IF \/ dtype.s \notin {"float32", "uint8"}
            \/ \E i \in 1..Len(shape.items) : shape.items[i].t # "int"
    THEN [ok |-> FALSE, opaque |-> FALSE, val |-> PNone]
    ELSE LET dims == [i \in 1..Len(shape.items) |-> shape.items[i].n]
         IN IF \/ BLen(raw) % ItemSize(dtype.s) # 0
               \/ ProdSeq(dims) # BLen(raw) \div ItemSize(dtype.s)
            THEN [ok |-> FALSE, opaque |-> FALSE, val |-> PNone]
            ELSE IF raw = <<>>
            THEN [ok |-> TRUE, opaque |-> FALSE, val |-> PArray(dtype.s, dims, <<>>)]
            ELSE IF IsWhole(raw, "npbuf") /\ raw[1].src.dtype = dtype.s
            THEN [ok |-> TRUE, opaque |-> FALSE,
                  val |-> PArray(dtype.s, dims, raw[1].src.elems)]
            ELSE [ok |-> TRUE, opaque |-> TRUE, val |-> PArray(dtype.s, dims, <<>>)]

\* A reader that takes no block of a type other than numpy, json and bytes.
DecodePayloadStrict(hdr, raw) ==
    IF ~HasKey(hdr, PStr("type"))
    THEN [ok |-> FALSE, opaque |-> FALSE, val |-> PNone]
    ELSE IF Item(hdr, PStr("type")) = PStr("numpy")
    THEN IF HasKey(hdr, PStr("dtype")) /\ HasKey(hdr, PStr("shape"))
         THEN FromBuffer(raw, Item(hdr, PStr("dtype")), Item(hdr, PStr("shape")))
         ELSE [ok |-> FALSE, opaque |-> FALSE, val |-> PNone]
    ELSE IF Item(hdr, PStr("type")) = PStr("json")
    THEN [ok |-> JsonLoads(raw).ok, opaque |-> FALSE, val |-> JsonLoads(raw).doc]
    ELSE IF Item(hdr, PStr("type")) = PStr("bytes")
    THEN [ok |-> TRUE, opaque |-> FALSE, val |-> PBytes(raw)]
    ELSE [ok |-> FALSE, opaque |-> FALSE, val |-> PNone]
\* A reader that hands out the decompressed buffer of every block as it is.
DecodePayloadRaw(hdr, raw) == [ok |-> TRUE, opaque |-> FALSE, val |-> PBytes(raw)]
\* "Convert back to original type" of read_package.
DecodePayload(hdr, raw) ==
    IF ~HasKey(hdr, PStr("type"))
    THEN [ok |-> FALSE, opaque |-> FALSE, val |-> PNone]
    ELSE IF Item(hdr, PStr("type")) = PStr("numpy")
    THEN IF HasKey(hdr, PStr("dtype")) /\ HasKey(hdr, PStr("shape"))
         THEN FromBuffer(raw, Item(hdr, PStr("dtype")), Item(hdr, PStr("shape")))
         ELSE [ok |-> FALSE, opaque |-> FALSE, val |-> PNone]
    ELSE IF Item(hdr, PStr("type")) = PStr("json")
    THEN LET j == JsonLoads(raw)
         IN [ok |-> j.ok, opaque |-> FALSE, val |-> j.doc]
    ELSE [ok |-> TRUE, opaque |-> FALSE, val |-> PBytes(raw)]

\* A reader that tests only that a checksum is stored.
ChecksumOkSkipped(hdr, compressed) == HasKey(hdr, PStr("checksum"))
\* hashlib.md5(compressed_data).hexdigest() == block_header['checksum']
ChecksumOk(hdr, compressed) == PMd5Hex(compressed) = Item(hdr, PStr("checksum"))

\* One pass of the body of the block-scan loop at offset pos of `data`:
\* brk (the loop is left), why, the offset afterwards, and the block stored.
ScanBlock(data, pos) ==
    LET szb == BRead(data, pos, 4)
        sz == UnpackU32(szb)
        hb == BRead(data, pos + 4, sz.n)
        hj == JsonLoads(hb)
        hdr == hj.doc
        p1 == pos + 4 + BLen(hb)
        none == [brk |-> TRUE, opaque |-> sz.opaque, name |-> PNone, val |-> PNone]
    IN IF BLen(szb) < 4
       THEN none @@ [why |-> "short", pos |-> pos + BLen(szb)]
       ELSE IF IsBoundary(sz.n)
       THEN none @@ [why |-> "boundary", pos |-> pos]
       ELSE IF ~hj.ok
       THEN none @@ [why |-> "header", pos |-> p1]
       ELSE IF \/ hdr.t # "dict"
               \/ ~HasKey(hdr, PStr("compressed_size"))
               \/ Item(hdr, PStr("compressed_size")).t # "int"
       THEN none @@ [why |-> "field", pos |-> p1]
       ELSE LET compressed == BRead(data, p1, Item(hdr, PStr("compressed_size")).n)
                p2 == p1 + BLen(compressed)
                z == Decompress(compressed)
                d == DecodePayload(hdr, z.raw)
            IN IF ~HasKey(hdr, PStr("checksum"))
               THEN none @@ [why |-> "field", pos |-> p2]
               ELSE IF ~ChecksumOk(hdr, compressed)
               THEN none @@ [why |-> "checksum", pos |-> p2]
               ELSE IF ~z.ok
               THEN none @@ [why |-> "zlib", pos |-> p2]
               ELSE IF ~d.ok
               THEN none @@ [why |-> "decode", pos |-> p2]
               ELSE IF ~HasKey(hdr, PStr("name"))
               THEN none @@ [why |-> "field", pos |-> p2]
               ELSE [brk |-> FALSE, opaque |-> sz.opaque \/ d.opaque, why |-> "stored",
                     pos |-> p2, name |-> Item(hdr, PStr("name")), val |-> d.val]


(***************************************************************************)
(* Accessors.                                                              *)
(***************************************************************************)
\* d.get(key)
DictGet(d, key) == IF HasKey(d, key) THEN Item(d, key) ELSE PNone
\* A lookup that takes the entry out of the dict, as d.pop(key, None) does.
AfterPop(d, key) ==
    PDict(SelectSeq(d.pairs, LAMBDA kv : kv.key # key))
\* The dict after d.get(key): as it was.
AfterGet(d, key) == d

\* key.startswith(prefix)
StartsWith(key, prefix) ==
    Len(key) >= Len(prefix) /\ SubSeq(key, 1, Len(prefix)) = prefix
\* key[n:]
StrFrom(key, n) == IF Len(key) <= n THEN "" ELSE SubSeq(key, n + 1, Len(key))

\* get_heightmap
GetHeightmap(self) == DictGet(self.data_blocks, PStr("heightmap"))
\* get_satellite
GetSatellite(self) == DictGet(self.data_blocks, PStr("satellite"))
\* get_material
GetMaterial(self, name) == DictGet(self.data_blocks, PStr("material_" \o name))
\* An accessor that cuts one character less than the prefix off the key.
GetAllMaterialsShortCut(self) ==
    LET found == SelectSeq(self.data_blocks.pairs,
                           LAMBDA kv : StartsWith(kv.key.s, "material_"))
    IN PDict([i \in 1..Len(found) |->
                 SKV(StrFrom(found[i].key.s, 8), found[i].val)])
\* get_all_materials
GetAllMaterials(self) ==
    LET found == SelectSeq(self.data_blocks.pairs,
                           LAMBDA kv : StartsWith(kv.key.s, "material_"))
    IN PDict([i \in 1..Len(found) |->
                 SKV(StrFrom(found[i].key.s, 9), found[i].val)])
\* get_osm_data
GetOsmData(self) == DictGet(self.data_blocks, PStr("osm_data"))
\* get_vegetation
GetVegetation(self) == DictGet(self.data_blocks, PStr("vegetation"))
\* get_tactical
GetTactical(self) == DictGet(self.data_blocks, PStr("tactical"))
\* get_metadata
GetMetadata(self) == self.header
\* list_data_blocks
ListDataBlocks(self) == Keys(self.data_blocks)

\* The accessor calls: [op, arg], arg the name get_material is given.
GetCalls ==
    {[op |-> o, arg |-> ""] :
        o \in {"get_heightmap", "get_satellite", "get_osm_data", "get_vegetation",
               "get_tactical"}}
    \cup {[op |-> "get_material", arg |-> n] : n \in {"grass", "sand"}}
Calls ==
    GetCalls \cup {[op |-> o, arg |-> ""] :
                     o \in {"get_all_materials", "get_metadata", "list_data_blocks"}}

\* The key of data_blocks a get_* call looks up.
BlockKey(call) ==
    CASE call.op = "get_heightmap" -> PStr("heightmap")
      [] call.op = "get_satellite" -> PStr("satellite")
      [] call.op = "get_material" -> PStr("material_" \o call.arg)
      [] call.op = "get_osm_data" -> PStr("osm_data")
      [] call.op = "get_vegetation" -> PStr("vegetation")
      [] call.op = "get_tactical" -> PStr("tactical")

\* What the call returns on the instance self.
ReturnOf(call, self) ==
    CASE call.op = "get_heightmap" -> GetHeightmap(self)
      [] call.op = "get_satellite" -> GetSatellite(self)
      [] call.op = "get_material" -> GetMaterial(self, call.arg)
      [] call.op = "get_all_materials" -> GetAllMaterials(self)
      [] call.op = "get_osm_data" -> GetOsmData(self)
      [] call.op = "get_vegetation" -> GetVegetation(self)
      [] call.op = "get_tactical" -> GetTactical(self)
      [] call.op = "get_metadata" -> GetMetadata(self)
      [] call.op = "list_data_blocks" -> PList(ListDataBlocks(self))

\* The instance after the call: no accessor assigns to self, and the lookups
\* they make are dict.get, .items() and .keys().
AfterCall(call, self) ==
    IF call \in GetCalls
    THEN [self EXCEPT !.data_blocks = AfterGet(@, BlockKey(call))]
    ELSE self

(***************************************************************************)
(* error_handling.retry: the wrapper it puts around a function.            *)
(***************************************************************************)
\* The base class of an exception class: the classes of error_handling.py
\* and the built-in ones the wrapped functions and callbacks raise.
BaseOf(type) ==
    CASE type = "NetworkError" -> "RTerrainError"
      [] type = "ValidationError" -> "RTerrainError"
      [] type = "RTerrainError" -> "Exception"
      [] type = "ValueError" -> "Exception"
      [] type = "RuntimeError" -> "Exception"
      [] type = "AttributeError" -> "Exception"
      [] type = "Exception" -> "BaseException"

RECURSIVE IsSubclass(_, _)
\* issubclass(type, of)
IsSubclass(type, of) ==
    \/ type = of
    \/ type # "BaseException" /\ IsSubclass(BaseOf(type), of)

\* Whether `except exceptions` catches an exception of this type.
Matches(type, exceptions) ==
    \E i \in 1..Len(exceptions) : IsSubclass(type, exceptions[i])

\* A callback guard that catches nothing.
SwallowedNever(type) == FALSE
\* Whether `except Exception` around on_retry catches what the callback
\* raises.
Swallowed(type) == IsSubclass(type, "Exception")

\* The type of the exception that `raise cls(message)` raises.
\* ValidationError.__init__ calls RTerrainError.__init__ before it sets
\* self.field, and RTerrainError.__init__ calls _generate_user_message, which
\* reads self.field: the constructor raises AttributeError.
Construct(cls) == IF cls = "ValidationError" THEN "AttributeError" ELSE cls

\* No exception.
NoExc == [type |-> "none", call |-> 0]

\* The wrapper was not called yet.
NotEntered ==
    [pc |-> "idle",
     max_attempts |-> 0, delay |-> 0, backoff |-> 0, exceptions |-> <<>>,
     on_retry |-> "none",
     attempt |-> 0, current_delay |-> 0, e |-> NoExc,
     asked |-> <<>>, calls |-> <<>>, slept |-> <<>>, called_back |-> <<>>,
     raised |-> NoExc]

(***************************************************************************)
(* error_handling.validate_bbox.  A coordinate is a whole number of        *)
(* ten-thousandths of a degree, so that 0.0001 degrees is 1.               *)
(***************************************************************************)
\* One degree.
Degree == 10000
\* The bounds of the longitude and of the latitude, 180 and 90 degrees.
LON_LIMIT == 180 * Degree
LAT_LIMIT == 90 * Degree
\* The least and the greatest width and height: 0.001 and 10 degrees.
MIN_SIZE == Degree \div 1000
MAX_SIZE == 10 * Degree

\* Whether a value is a number.
IsNumber(v) == v.t = "int"

\* What `raise ValidationError(message, field=field)` raises: the type, and
\* the field of the exception when it was constructed.
RaiseValidationError(bbox, field) ==
    [ret |-> PNone, exc |-> Construct("ValidationError"),
     field |-> IF Construct("ValidationError") = "ValidationError" THEN field
               ELSE "none"]
\* A comparison of a number with a value that is none raises TypeError.
RaiseTypeError(bbox) == [ret |-> PNone, exc |-> "TypeError", field |-> "none"]

\* validate_bbox(bbox): [ret, exc, field]; exc = "none": it returns ret.
ValidateBbox(bbox) ==
    IF bbox.t \notin {"tuple", "list"} \/ Len(bbox.items) # 4
    THEN RaiseValidationError(bbox, "bounding_box")
    ELSE LET min_lon == bbox.items[1]
             min_lat == bbox.items[2]
             max_lon == bbox.items[3]
             max_lat == bbox.items[4]
         IN IF ~IsNumber(min_lon) THEN RaiseTypeError(bbox)
            ELSE IF -LON_LIMIT > min_lon.n
                 THEN RaiseValidationError(bbox, "longitude")
            ELSE IF ~IsNumber(max_lon) THEN RaiseTypeError(bbox)
            ELSE IF ~(min_lon.n < max_lon.n /\ max_lon.n <= LON_LIMIT)
                 THEN RaiseValidationError(bbox, "longitude")
            ELSE IF ~IsNumber(min_lat) THEN RaiseTypeError(bbox)
            ELSE IF -LAT_LIMIT > min_lat.n
                 THEN RaiseValidationError(bbox, "latitude")
            ELSE IF ~IsNumber(max_lat) THEN RaiseTypeError(bbox)
            ELSE IF ~(min_lat.n < max_lat.n /\ max_lat.n <= LAT_LIMIT)
                 THEN RaiseValidationError(bbox, "latitude")
            ELSE LET width == max_lon.n - min_lon.n
                     height == max_lat.n - min_lat.n
                 IN IF width < MIN_SIZE \/ height < MIN_SIZE
                    THEN RaiseValidationError(bbox, "area_size")
                    ELSE IF width > MAX_SIZE \/ height > MAX_SIZE
                    THEN RaiseValidationError(bbox, "area_size")
                    ELSE [ret |-> PTuple(<<min_lon, min_lat, max_lon, max_lat>>),
                          exc |-> "none", field |-> "none"]

\* validate_bbox was not called yet.
NotValidated ==
    [called |-> FALSE, bbox |-> PNone, ret |-> PNone, exc |-> "none",
     field |-> "none"]

(***************************************************************************)
(* State.                                                                  *)
(***************************************************************************)
VARIABLES
    file,      \* the file at the path the last call named: [exists, data]
    inst,      \* the RTerrainFormat instance: [header, data_blocks, index]
    pc,        \* where read_package stands: idle, version, header, blocks
    pos,       \* f.tell() of the stream read_package reads
    clock,     \* ticks of datetime.now(), one per create_package call
    outcome,   \* the last call on the file as it is: [op, exc]
    made,      \* the create_package call that wrote the file
    damage,    \* what was done to the file since it was written: [cut, flips]
    before,    \* the instance as the running or last call found it
    iters,     \* the passes of the block-scan loop: [at, why, opaque]
    kept,      \* an instance a caller still holds: [held, inst, made, damage]
    seen,      \* what each reader of the instance last got: [op, arg, val]
    wrapper,   \* the call of a function decorated with retry: its arguments,
               \* locals and what it did so far
    validated  \* the last call of validate_bbox: [called, bbox, ret, exc, field]

\* The state of the package format.
fmt_vars == <<file, inst, pc, pos, clock, outcome, made, damage, before, iters, kept,
              seen>>
vars == <<fmt_vars, wrapper, validated>>

\* RTerrainFormat.__init__
FreshInst ==
    [header |-> PDict(<<>>), data_blocks |-> PDict(<<>>), index |-> PDict(<<>>)]

NoArgs ==
    [project_info |-> PDict(<<>>), heightmap |-> PNone, satellite |-> PNone,
     materials |-> PNone, osm_data |-> PNone, vegetation |-> PNone,
     tactical |-> PNone, profile_config |-> PNone]

NoCall == [op |-> "none", exc |-> "none"]
\* The file is as written: not cut (cut = -1), no byte changed.
NoDamage == [cut |-> -1, flips |-> {}]
NoCreate == [called |-> FALSE, args |-> NoArgs, now |-> 0]
\* The caller holds no instance of an earlier read_package.
NoKept == [held |-> FALSE, inst |-> FreshInst, made |-> NoCreate, damage |-> NoDamage]

\* The readers that share a loaded instance.
Readers == {1, 2}
\* No reader has called an accessor of the instance yet.
NotCalled == [op |-> "none", arg |-> "", val |-> PNone]
NoneSeen == [r \in Readers |-> NotCalled]

Init ==
    /\ file = [exists |-> FALSE, data |-> <<>>]
    /\ inst = FreshInst
    /\ pc = "idle"
    /\ pos = 0
    /\ clock = 0
    /\ outcome = NoCall
    /\ made = NoCreate
    /\ damage = NoDamage
    /\ before = FreshInst
    /\ iters = <<>>
    /\ kept = NoKept
    /\ seen = NoneSeen
    /\ wrapper = NotEntered
    /\ validated = NotValidated

\* The most create_package calls of one behaviour.
MaxCreates == 1
\* The most changes made to a written file.
MaxDamage == 1

\* The most calls that repeat the create_package call before them.
MaxRepeats == 1

\* self.create_package(path, **a) on the instance self0, for a path that
\* names no file yet.
DoCreatePackage(self0, a) ==
    /\ pc = "idle"
    /\ \E r \in {CreatePackageResult(a, self0.index, clock)} :
          /\ inst' = [header |-> IF r.noheader THEN self0.header ELSE r.header,
                      data_blocks |-> self0.data_blocks,
                      index |-> r.index]
          /\ file' = [exists |-> ~r.nofile, data |-> r.data]
          /\ outcome' = [op |-> "create_package", exc |-> r.exc]
    /\ made' = [called |-> TRUE, args |-> a, now |-> clock]
    /\ clock' = clock + 1
    /\ damage' = NoDamage
    /\ pos' = 0
    /\ before' = self0
    /\ iters' = <<>>
    /\ seen' = NoneSeen
    /\ UNCHANGED <<pc, kept, wrapper,
                   validated>>

\* A create_package call with arguments of the caller's choice.
CreatePackage(self0, a) ==
    /\ clock < MaxCreates
    /\ DoCreatePackage(self0, a)

\* create_package is called once more, on an instance of its own, with the
\* arguments of the call before.
CreateAgain ==
    /\ made.called
    /\ clock < MaxCreates + MaxRepeats
    /\ DoCreatePackage(FreshInst, made.args)

\* create_package is called once more on the instance of the call before,
\* with arguments of the caller's choice.
CreateNext(a) ==
    /\ made.called
    /\ clock < MaxCreates + MaxRepeats
    /\ DoCreatePackage(inst, a)

\* read_package leaves by an exception or by its return.
Leave(exc) ==
    /\ pc' = "idle"
    /\ outcome' = [op |-> "read_package", exc |-> exc]

\* read_package, step 1, on the instance self0: open the file, check the magic.
ReadOpen(self0) ==
    /\ pc = "idle"
    /\ file.exists
    /\ LET magic == BRead(file.data, 0, 4)
       IN /\ pos' = BLen(magic)
          /\ IF ~MagicOk(magic)
             THEN Leave("ValueError")
             ELSE /\ pc' = "version"
                  /\ outcome' = [op |-> "read_package", exc |-> "running"]
    /\ inst' = self0
    /\ before' = self0
    /\ iters' = <<>>
    /\ seen' = NoneSeen
    /\ UNCHANGED <<file, clock, made, damage, kept, wrapper,
                   validated>>

\* read_package, step 2: the version.
ReadVersion ==
    /\ pc = "version"
    /\ LET vb == BRead(file.data, pos, 4)
           u == UnpackU32(vb)
       IN /\ pos' = pos + BLen(vb)
          /\ IF ~u.ok THEN Leave("struct.error")
             ELSE IF ~VersionOk(u.n) THEN Leave("ValueError")
             ELSE /\ pc' = "header"
                  /\ UNCHANGED outcome
    /\ UNCHANGED <<file, inst, clock, made, damage, before, iters, kept, seen,
                   wrapper,
                   validated>>

HasFlip(b) == \E i \in 1..Len(b) : b[i].src.k = "flip"

\* read_package, step 3: the header.
ReadHeader ==
    /\ pc = "header"
    /\ LET sb == BRead(file.data, pos, 4)
           u == UnpackU32(sb)
           hb == BRead(file.data, pos + 4, u.n)
           j == JsonLoads(hb)
       IN IF ~u.ok
          THEN /\ pos' = pos + BLen(sb)
               /\ Leave("struct.error")
               /\ UNCHANGED inst
          ELSE /\ pos' = pos + 4 + BLen(hb)
               /\ IF j.ok
                  THEN /\ inst' = [inst EXCEPT !.header = j.doc]
                       /\ pc' = "blocks"
                       /\ UNCHANGED outcome
                  ELSE /\ Leave(IF HasFlip(hb) THEN "UnicodeDecodeError"
                                ELSE "JSONDecodeError")
                       /\ UNCHANGED inst
    /\ UNCHANGED <<file, clock, made, damage, before, iters, kept, seen, wrapper,
                   validated>>

\* A loop that leaves a room of 1024 bytes at the end of the file.
ScanGoesOnFarFromEnd(data, p) == p < BLen(data) - CHECKSUM_ROOM * CHECKSUM_ROOM
\* A loop that scans to the end of the file.
ScanGoesOnToEnd(data, p) == p < BLen(data)
\* Whether the block-scan loop runs another pass at offset p.
ScanGoesOn(data, p) == p < BLen(data) - CHECKSUM_ROOM

\* A block-scan loop that carries on with the next block after a digest
\* that differs.
ReadBlockCarriesOn ==
    /\ pc = "blocks"
    /\ IF ~ScanGoesOn(file.data, pos)
       THEN /\ Leave("none")
            /\ UNCHANGED <<inst, pos, iters>>
       ELSE \E st \in {ScanBlock(file.data, pos)} :
               /\ pos' = st.pos
               /\ iters' = Append(iters, [at |-> pos, why |-> st.why,
                                          opaque |-> st.opaque])
               /\ IF st.brk /\ st.why # "checksum"
                  THEN /\ Leave("none")
                       /\ UNCHANGED inst
                  ELSE IF st.brk
                  THEN UNCHANGED <<inst, pc, outcome>>
                  ELSE /\ inst' = [inst EXCEPT !.data_blocks =
                                      SetItem(@, st.name, st.val)]
                       /\ UNCHANGED <<pc, outcome>>
    /\ UNCHANGED <<file, clock, made, damage, before, kept, seen, wrapper,
                   validated>>
\* read_package, step 4: one test of the loop condition and, when it holds,
\* one pass of the loop; leaving the loop returns self.
ReadBlock ==
    /\ pc = "blocks"
    /\ IF ~ScanGoesOn(file.data, pos)
       THEN /\ Leave("none")
            /\ UNCHANGED <<inst, pos, iters>>
       ELSE \E st \in {ScanBlock(file.data, pos)} :
               /\ pos' = st.pos
               /\ iters' = Append(iters, [at |-> pos, why |-> st.why,
                                          opaque |-> st.opaque])
               /\ IF st.brk
                  THEN /\ Leave("none")
                       /\ UNCHANGED inst
                  ELSE /\ inst' = [inst EXCEPT !.data_blocks =
                                      SetItem(@, st.name, st.val)]
                       /\ UNCHANGED <<pc, outcome>>
    /\ UNCHANGED <<file, clock, made, damage, before, kept, seen, wrapper,
                   validated>>

(***************************************************************************)
(* The environment: a written file is cut short or has one byte changed    *)
(* while no call runs.                                                     *)
(***************************************************************************)
RECURSIVE RunStarts(_, _)
\* The offsets at which the runs of b start, b starting at offset p.
RunStarts(b, p) ==
    IF b = <<>> THEN {}
    ELSE {p} \cup RunStarts(Tail(b), p + Head(b).hi - Head(b).lo + 1)

\* The lengths a file is cut to: at the start of a field and one byte into it.
CutSpots(data) ==
    {n \in RunStarts(data, 0) \cup {p + 1 : p \in RunStarts(data, 0)} :
        n < BLen(data)}
\* The offsets of the bytes that are changed: the first byte of a field.
FlipSpots(data) == RunStarts(data, 0)
\* The file with the byte at offset p changed: a byte of known value to the
\* next value, a byte of JSON text to 0xFF (no UTF-8), any other byte to
\* another value.
FlipAt(data, p) ==
    LET cur == BRead(data, p, 1)[1]
        new == IF cur.src.k = "u8" THEN U8((cur.src.v + 1) % 256)
               ELSE FlipSrc(cur.src, cur.lo)
    IN BTake(data, p) \o <<[src |-> new, lo |-> 1, hi |-> 1]>> \o BDrop(data, p + 1)

\* The changes made: the cut and every changed byte that is still there.
Changes(d) == Cardinality(d.flips) + (IF d.cut >= 0 THEN 1 ELSE 0)

\* A change is made while no call runs, MaxDamage times at most.
CanHarm == pc = "idle" /\ file.exists /\ Changes(damage) < MaxDamage

Harm(d) ==
    /\ damage' = d
    /\ outcome' = NoCall
    /\ UNCHANGED <<inst, pc, pos, clock, made, before, iters, kept, seen, wrapper,
                   validated>>

Truncate ==
    /\ CanHarm
    /\ \E n \in CutSpots(file.data) :
        /\ file' = [file EXCEPT !.data = BTake(@, n)]
        /\ Harm([cut |-> n, flips |-> {p \in damage.flips : p < n}])

FlipByte ==
    /\ CanHarm
    /\ \E p \in FlipSpots(file.data) \ damage.flips :
        /\ file' = [file EXCEPT !.data = FlipAt(@, p)]
        /\ Harm([damage EXCEPT !.flips = @ \cup {p}])

\* The type tags of the producers other than create_package: no tag of
\* _write_data_block.
OtherTags == {PStr("raw"), PStr("Numpy"), PNone}
\* The offset of the first block of a file: the end of its header record.
FirstBlockAt(data) == 12 + UnpackU32(BRead(data, 8, 4)).n
\* The metadata record that starts at offset at of data.
MetaAt(data, at) == JsonLoads(BRead(data, at + 4, UnpackU32(BRead(data, at, 4)).n)).doc
\* The file with the record at offset at replaced by the record hdr.
WithMeta(data, at, hdr) ==
    BTake(data, at)
    \o PackU32(BLen(Whole(JsonSrc(JsonNorm(hdr), 0))))
    \o Whole(JsonSrc(JsonNorm(hdr), 0))
    \o BDrop(data, at + 4 + UnpackU32(BRead(data, at, 4)).n)

\* Another producer wrote the first block of the file: the same record and
\* payload under a type tag of its own.
Retag ==
    /\ pc = "idle"
    /\ file.exists
    /\ Blocks(made.args) # <<>>
    /\ \E at \in {FirstBlockAt(file.data)} :
         \E hdr \in {MetaAt(file.data, at)} :
            /\ Item(hdr, PStr("type")) \notin OtherTags
            /\ \E tag \in OtherTags :
                  file' = [file EXCEPT !.data =
                              WithMeta(@, at, SetItem(hdr, PStr("type"), tag))]
    /\ Harm(damage)

\* The offsets of the final 32 bytes of a file, the room read_package leaves
\* unread for the digest.
TailSpots(data) == {p \in 0..(BLen(data) - 1) : p >= BLen(data) - CHECKSUM_ROOM}

\* One of the final 32 bytes of the file is changed.
ChangeTail ==
    /\ CanHarm
    /\ \E p \in TailSpots(file.data) \ damage.flips :
        /\ file' = [file EXCEPT !.data = FlipAt(@, p)]
        /\ Harm([damage EXCEPT !.flips = @ \cup {p}])

\* The caller of read_package keeps the instance it returned, next to the
\* file it was read from.
Keep ==
    /\ pc = "idle"
    /\ outcome = [op |-> "read_package", exc |-> "none"]
    /\ kept' = [held |-> TRUE, inst |-> inst, made |-> made, damage |-> damage]
    /\ kept' # kept
    /\ UNCHANGED <<file, inst, pc, pos, clock, outcome, made, damage, before, iters,
                   seen, wrapper,
                   validated>>

\* Reader r calls an accessor of the instance read_package returned.
Access(r, call) ==
    /\ pc = "idle"
    /\ outcome = [op |-> "read_package", exc |-> "none"]
    /\ seen' = [seen EXCEPT ![r] = [op |-> call.op, arg |-> call.arg,
                                    val |-> ReturnOf(call, inst)]]
    /\ seen' # seen
    /\ inst' = AfterCall(call, inst)
    /\ UNCHANGED <<file, pc, pos, clock, outcome, made, damage, before, iters, kept,
                   wrapper,
                   validated>>

(***************************************************************************)
(* The steps of retry's wrapper.  wrapper.calls are the calls of the       *)
(* wrapped function so far, each with the type it raised ("none": it       *)
(* returned), and wrapper.asked the classes its raise statements named;    *)
(* wrapper.slept are the arguments of time.sleep so far;                   *)
(* wrapper.called_back are the calls of on_retry so far.                   *)
(***************************************************************************)
\* The largest max_attempts a function is decorated with.
MaxAttempts == 3

\* The arguments of retry.
RetryArgs ==
    [max_attempts : 0..MaxAttempts, delay : {1, 3}, backoff : {1, 3},
     exceptions : {<<"Exception">>, <<"RTerrainError">>, <<"NetworkError">>,
                   <<"ValueError", "NetworkError">>},
     on_retry : {"none", "callback"}]

\* The class a call of the wrapped function names in its raise statement;
\* "none": it returns.
FuncRaises == {"none", "ValueError", "NetworkError", "ValidationError"}
\* What a call of the callback raises; "none": it returns.
CallbackRaises == {"none", "RuntimeError"}

\* wrapper(*args, **kwargs) is called: current_delay = delay, and the for
\* loop over range(1, max_attempts + 1) starts, or is over at once.
Enter(args) ==
    /\ wrapper.pc = "idle"
    /\ wrapper' = [NotEntered EXCEPT
                      !.pc = IF 1 < args.max_attempts + 1 THEN "try" ELSE "after_loop",
                      !.max_attempts = args.max_attempts,
                      !.delay = args.delay, !.backoff = args.backoff,
                      !.exceptions = args.exceptions, !.on_retry = args.on_retry,
                      !.attempt = IF 1 < args.max_attempts + 1 THEN 1 ELSE 0,
                      !.current_delay = args.delay]
    /\ UNCHANGED <<fmt_vars, validated>>

\* The wrapper with one more call of the wrapped function, which ran
\* `raise cls(message)`.
Called(w, cls) ==
    [w EXCEPT !.asked = Append(@, cls), !.calls = Append(@, Construct(cls))]

\* The try statement of the loop body: func is called; it returns, or it
\* raises what the except clause does not catch, or the last attempt's
\* exception is raised again, or the handler goes on to the callback.
Try ==
    /\ wrapper.pc = "try"
    /\ \E cls \in FuncRaises :
         LET w == Called(wrapper, cls)
             type == Construct(cls)
             e == [type |-> type, call |-> Len(w.calls)]
         IN wrapper' =
              IF type = "none" THEN [w EXCEPT !.pc = "returned"]
              ELSE IF ~Matches(type, w.exceptions)
                   THEN [w EXCEPT !.pc = "raised", !.raised = e]
              ELSE IF w.attempt = w.max_attempts
                   THEN [w EXCEPT !.pc = "raised", !.raised = e, !.e = e]
              ELSE [w EXCEPT !.pc = "on_retry", !.e = e]
    /\ UNCHANGED <<fmt_vars, validated>>

\* if on_retry: on_retry(attempt, e), inside try/except Exception.
OnRetry ==
    /\ wrapper.pc = "on_retry"
    /\ IF wrapper.on_retry = "none"
       THEN wrapper' = [wrapper EXCEPT !.pc = "sleep"]
       ELSE \E type \in CallbackRaises :
              LET w == [wrapper EXCEPT !.called_back =
                           Append(@, [attempt |-> wrapper.attempt, e |-> wrapper.e,
                                      slept |-> Len(wrapper.slept),
                                      raises |-> type])]
              IN wrapper' =
                   IF type = "none" \/ Swallowed(type)
                   THEN [w EXCEPT !.pc = "sleep"]
                   ELSE [w EXCEPT !.pc = "raised",
                                  !.raised = [type |-> type, call |-> 0]]
    /\ UNCHANGED <<fmt_vars, validated>>

\* time.sleep(current_delay); current_delay *= backoff; and the loop goes to
\* its next attempt.
Sleep ==
    /\ wrapper.pc = "sleep"
    /\ wrapper' = [wrapper EXCEPT !.slept = Append(@, wrapper.current_delay),
                                  !.current_delay = @ * wrapper.backoff,
                                  !.attempt = @ + 1,
                                  !.pc = "try"]
    /\ UNCHANGED <<fmt_vars, validated>>

\* The statement after the loop: return func(*args, **kwargs), in no try.
AfterLoop ==
    /\ wrapper.pc = "after_loop"
    /\ \E cls \in FuncRaises :
         LET w == Called(wrapper, cls)
             type == Construct(cls)
         IN wrapper' =
              IF type = "none" THEN [w EXCEPT !.pc = "returned"]
              ELSE [w EXCEPT !.pc = "raised",
                             !.raised = [type |-> type, call |-> Len(w.calls)]]
    /\ UNCHANGED <<fmt_vars, validated>>

\* validate_bbox(bbox) is called.
Validate(bbox) ==
    /\ \E r \in {ValidateBbox(bbox)} :
          validated' = [called |-> TRUE, bbox |-> bbox, ret |-> r.ret,
                        exc |-> r.exc, field |-> r.field]
    /\ validated' # validated
    /\ UNCHANGED <<fmt_vars, wrapper>>

(***************************************************************************)
(* Inputs.                                                                 *)
(***************************************************************************)
\* The bbox is a tuple, as the callers of create_rterrain_package pass it.
ProjectInfos ==
    {PDict(<<SKV("name", PStr("T")),
             SKV("bbox", PTuple(<<PInt(0), PInt(0), PInt(1), PInt(1)>>))>>)}
Heightmaps == {PNone, PArray("float32", <<2, 2>>, <<0, 1, 2, 3>>)}
Satellites == {PNone, PBytes(Whole(Blob(1, 3)))}
MaterialSets ==
    {PNone, PDict(<<>>),
     PDict(<<SKV("grass", PArray("uint8", <<2>>, <<0, 255>>)),
             SKV("rock", PArray("uint8", <<1, 2>>, <<255, 0>>))>>)}
OsmDatas ==
    {PNone,
     PDict(<<SKV("objects", PList(<<
         PDict(<<SKV("type", PStr("road")),
                 SKV("coords", PList(<<PList(<<PInt(0), PInt(0)>>),
                                       PList(<<PInt(1), PInt(1)>>)>>))>>)>>))>>)}
Vegetations == {PNone, PDict(<<SKV("spawns", PList(<<>>))>>)}
Tacticals == {PNone, PDict(<<SKV("cover", PFloat("0.5"))>>)}
Profiles == {PNone, PDict(<<SKV("lod", PInt(3))>>)}

\* Every combination of present and absent artifacts.
ArgsAll ==
    [project_info : ProjectInfos, heightmap : Heightmaps, satellite : Satellites,
     materials : MaterialSets, osm_data : OsmDatas, vegetation : Vegetations,
     tactical : Tacticals, profile_config : Profiles]

\* The packages whose files are damaged: of no block, of one and of two.
ArgsSmall ==
    {a \in ArgsAll :
        /\ a.materials = PNone /\ a.osm_data = PNone
        /\ a.vegetation = PNone /\ a.tactical = PNone
        /\ (a.satellite # PNone) <=> (a.heightmap # PNone)
        /\ (a.heightmap # PNone) => (a.profile_config = PNone)}

\* The packages that are written twice: every combination of heightmap,
\* satellite, osm_data and profile.
ArgsTwice ==
    {a \in ArgsAll :
        a.materials = PNone /\ a.vegetation = PNone /\ a.tactical = PNone}

\* The packages whose accessors are called: heightmap, osm_data, vegetation,
\* tactical and profile all present or all absent, with every combination
\* of satellite and materials.
ArgsAccess ==
    {a \in ArgsAll :
        \A v \in {a.osm_data, a.vegetation, a.tactical, a.profile_config} :
            (v = PNone) <=> (a.heightmap = PNone)}

\* The package whose scan is followed block by block: heightmap, satellite
\* and profile.
ArgsScan ==
    {a \in ArgsAll :
        /\ a.materials = PNone /\ a.osm_data = PNone
        /\ a.vegetation = PNone /\ a.tactical = PNone
        /\ a.heightmap # PNone /\ a.satellite # PNone /\ a.profile_config # PNone}

RECURSIVE LongerThan(_, _)
\* A string of more than n characters: s, doubled until it is long enough.
LongerThan(s, n) == IF Len(s) > n THEN s ELSE LongerThan(s \o s, n)
\* A material name that alone is longer than the largest block record
\* read_package takes.
LongName == LongerThan("m", MAX_BLOCK_HEADER)
\* Packages of a satellite image and one material mask, of a short or of a
\* long name, with every combination of heightmap, osm_data and profile.
ArgsLong ==
    {a \in ArgsAll :
        /\ a.satellite # PNone /\ a.vegetation = PNone /\ a.tactical = PNone
        /\ a.materials # PNone /\ a.materials # PDict(<<>>)}
    \cup
    {[a EXCEPT !.materials = PDict(<<SKV(LongName, PArray("uint8", <<2>>, <<0, 255>>))>>)] :
        a \in {b \in ArgsAll :
                  /\ b.satellite # PNone /\ b.vegetation = PNone
                  /\ b.tactical = PNone /\ b.materials = PNone}}

\* The longitudes and latitudes validate_bbox is given: at, inside and
\* outside every limit.
Longitudes ==
    {-LON_LIMIT - 1, 0, 1, MIN_SIZE, MAX_SIZE, MAX_SIZE + 1, LON_LIMIT + 1}
Latitudes ==
    {-LAT_LIMIT - 1, 0, 1, MIN_SIZE, MAX_SIZE + 1, LAT_LIMIT + 1}
\* The bounding boxes of four numbers.
NumberBboxes ==
    {PTuple(<<PInt(a), PInt(b), PInt(c), PInt(d)>>) :
        a \in Longitudes, b \in Latitudes, c \in Longitudes, d \in Latitudes}
\* The arguments that are no four numbers: None, three numbers, strings.
OtherBboxes ==
    {PNone, PTuple(<<PInt(1), PInt(2), PInt(3)>>),
     PTuple(<<PStr("a"), PStr("b"), PStr("c"), PStr("d")>>),
     PTuple(<<PInt(0), PStr("b"), PInt(LON_LIMIT + 1), PInt(1)>>),
     PTuple(<<PInt(0), PStr("b"), PInt(MIN_SIZE), PInt(MIN_SIZE)>>)}
Bboxes == NumberBboxes \cup OtherBboxes

\* Payloads of every kind _write_data_block takes.
Arrays ==
    {PArray("float32", <<2, 2>>, <<0, 1, 2, 3>>), PArray("uint8", <<3>>, <<7, 8, 9>>),
     PArray("uint8", <<0>>, <<>>), PArray("object", <<1>>, <<5>>)}
BytesObjects == {PBytes(<<>>), PBytes(Whole(Blob(1, 3)))}
Records ==
    {PDict(<<>>),
     PDict(<<SKV("a", PList(<<PInt(1), PStr("x"), PNone, PBool(TRUE)>>)),
             SKV("b", PDict(<<SKV("c", PFloat("0.5"))>>))>>),
     PDict(<<SKV("at", PTuple(<<PInt(1), PInt(2)>>))>>),
     PDict(<<KV(PInt(1), PStr("one"))>>),
     PList(<<PInt(1), PInt(2)>>),
     PStr("text")}
Payloads == Arrays \cup BytesObjects \cup Records

\* project_info of a bbox given as a list.
ListInfo ==
    PDict(<<SKV("name", PStr("T")),
            SKV("bbox", PList(<<PInt(0), PInt(0), PInt(1), PInt(1)>>))>>)

ArgsCodec ==
    {[NoArgs EXCEPT !.project_info = ListInfo, !.heightmap = h, !.tactical = t,
                    !.profile_config = p] :
        h \in {PNone, PArray("float32", <<2, 2>>, <<0, 1, 2, 3>>)},
        t \in Payloads \cup {PNone},
        p \in {PNone, PBytes(Whole(Blob(1, 3))), PDict(<<SKV("lod", PInt(3))>>)}}

(***************************************************************************)
(* Specifications.  Every call is made on an instance of its own, as       *)
(* create_rterrain_package and read_rterrain_package make them.            *)
(***************************************************************************)
Read ==
    \/ ReadOpen(FreshInst)
    \/ ReadVersion
    \/ ReadHeader
    \/ ReadBlock

\* Packages of every combination of artifacts, written and read.
Next ==
    \/ \E a \in ArgsAll : CreatePackage(FreshInst, a)
    \/ Read

Spec == Init /\ [][Next]_vars

\* Packages of every kind of payload, written and read.
NextCodec ==
    \/ \E a \in ArgsCodec : CreatePackage(FreshInst, a)
    \/ Read

SpecCodec == Init /\ [][NextCodec]_vars

\* Written files that are damaged before they are read.
NextDamage ==
    \/ \E a \in ArgsSmall : CreatePackage(FreshInst, a)
    \/ Truncate
    \/ FlipByte
    \/ Read

SpecDamage == Init /\ [][NextDamage]_vars

\* A written file of three blocks is damaged before it is read.
NextScan ==
    \/ \E a \in ArgsScan : CreatePackage(FreshInst, a)
    \/ Truncate
    \/ FlipByte
    \/ Read

SpecScan == Init /\ [][NextScan]_vars

\* One instance makes every call, and bytes are changed between the calls.
NextReuse ==
    \/ \E a \in ArgsSmall : CreatePackage(inst, a)
    \/ FlipByte
    \/ ReadOpen(inst)
    \/ ReadVersion
    \/ ReadHeader
    \/ ReadBlock

SpecReuse == Init /\ [][NextReuse]_vars

\* A written file is read and kept, a byte of its final 32 is changed, and it
\* is read again.
NextTail ==
    \/ \E a \in ArgsSmall : CreatePackage(FreshInst, a)
    \/ ChangeTail
    \/ Read
    \/ Keep

SpecTail == Init /\ [][NextTail]_vars

\* A package is written, read and kept, then written again from the same
\* arguments and read again.
NextTwice ==
    \/ \E a \in ArgsTwice : CreatePackage(FreshInst, a)
    \/ CreateAgain
    \/ Read
    \/ Keep

SpecTwice == Init /\ [][NextTwice]_vars

\* A package is written and read, and two readers call the accessors of the
\* instance in any order.
NextAccess ==
    \/ \E a \in ArgsAccess : CreatePackage(FreshInst, a)
    \/ Read
    \/ \E r \in Readers, call \in Calls : Access(r, call)

SpecAccess == Init /\ [][NextAccess]_vars

\* One call of a function decorated with retry.
NextRetry ==
    \/ \E args \in RetryArgs : Enter(args)
    \/ Try
    \/ OnRetry
    \/ Sleep
    \/ AfterLoop

SpecRetry == Init /\ [][NextRetry]_vars

\* Calls of validate_bbox.
NextBbox == \E bbox \in Bboxes : Validate(bbox)

SpecBbox == Init /\ [][NextBbox]_vars

\* One instance writes a package and then another one.
NextRewrite ==
    \/ \E a \in ArgsTwice : CreatePackage(FreshInst, a)
    \/ \E a \in ArgsTwice : CreateNext(a)

SpecRewrite == Init /\ [][NextRewrite]_vars

\* One instance reads a file, another package is written to the file, and
\* the instance reads it again.
NextReread ==
    \/ \E a \in ArgsSmall : CreatePackage(FreshInst, a)
    \/ \E a \in ArgsSmall : CreateNext(a)
    \/ ReadOpen(inst)
    \/ ReadVersion
    \/ ReadHeader
    \/ ReadBlock

SpecReread == Init /\ [][NextReread]_vars

\* Packages with material masks of short and of long names are written and
\* read.
NextLong ==
    \/ \E a \in ArgsLong : CreatePackage(FreshInst, a)
    \/ Read

SpecLong == Init /\ [][NextLong]_vars

\* Packages of payloads of every kind are written, the first block is given
\* the type tag of another producer or left alone, and the file is read.
NextTag ==
    \/ \E a \in ArgsCodec : CreatePackage(FreshInst, a)
    \/ Retag
    \/ Read

SpecTag == Init /\ [][NextTag]_vars

(***************************************************************************)
(* Properties.                                                             *)
(***************************************************************************)
\* read_package has ended, by its return or by an exception.
ReadDone == pc = "idle" /\ outcome.op = "read_package"
\* read_package has returned self.
Returned == ReadDone /\ outcome.exc = "none"
\* The exceptions that are a ValueError: its subclasses among them.
IsValueError(exc) == exc \in {"ValueError", "UnicodeDecodeError", "JSONDecodeError"}

\* The names of the blocks a package of these artifacts is to hold.
NameIfPresent(name, v) == IF v = PNone THEN <<>> ELSE <<PStr(name)>>
ExpectedNames(a) ==
    NameIfPresent("heightmap", a.heightmap) \o NameIfPresent("satellite", a.satellite)
    \o (IF a.materials = PNone THEN <<>>
        ELSE [i \in 1..Len(a.materials.pairs) |->
                PStr("material_" \o a.materials.pairs[i].key.s)])
    \o NameIfPresent("osm_data", a.osm_data)
    \o NameIfPresent("vegetation", a.vegetation)
    \o NameIfPresent("tactical", a.tactical)
    \o NameIfPresent("profile", a.profile_config)

\* The header the writer of the file built.
BuiltHeader == CreateHeader(made.args, made.now).header
\* The blocks of the file as written: name -> offset, size, compressed_size.
Layout == WriteBlocks(made.args, BuiltHeader, PDict(<<>>)).index
\* The offsets of the compressed payload of the block called name.
PayloadOf(name) ==
    LET e == Item(Layout, name)
        end == Item(e, PStr("offset")).n + Item(e, PStr("size")).n
    IN (end - Item(e, PStr("compressed_size")).n)..(end - 1)
\* Exactly one byte was changed, inside the compressed payload of block name.
OneByteChangedIn(name) ==
    /\ damage.cut = -1
    /\ Cardinality(damage.flips) = 1
    /\ damage.flips \subseteq PayloadOf(name)
\* The block-scan loop found the digest of the block called name to differ.
MismatchFound(name) ==
    \E i \in 1..Len(iters) :
        /\ iters[i].why = "checksum"
        /\ iters[i].at = Item(Item(Layout, name), PStr("offset")).n

\* The value a payload is read back as when JSON carries it as it was built.
\* An array or a bytes object is no JSON; it is read back from its buffer.
AsCarried(data) == IF data.t \in {"ndarray", "bytes"} THEN data ELSE JsonNorm(data)
\* An array of an element type that is rebuilt from a buffer.
Rebuildable(data) == data.t = "ndarray" => data.dtype \in {"float32", "uint8"}

C2_CreateSucceedsForEveryCombination ==
    outcome.op = "create_package" =>
        /\ outcome.exc = "none"
        /\ file.exists
        /\ Keys(inst.index) = ExpectedNames(made.args)

\* C3: when create_package has ended it has returned, and the last 32 bytes
\* of the file are the SHA-256 digest of every byte before them.
C3_FileEndsWithDigest ==
    outcome.op = "create_package" /\ file.exists =>
        /\ outcome.exc = "none"
        /\ BLen(file.data) >= 32
        /\ BDrop(file.data, BLen(file.data) - 32)
             = Whole(ShaSrc(BTake(file.data, BLen(file.data) - 32)))

\* C4: read_package on a file whose first 4 bytes are not the magic raises
\* ValueError with nothing read beyond those bytes, no pass of the block
\* scan made, and header and data_blocks as they were before the call.
C4_BadMagicRaisesFirst ==
    outcome.op = "read_package" /\ BRead(file.data, 0, 4) # MAGIC_NUMBER =>
        /\ pc = "idle"
        /\ outcome.exc = "ValueError"
        /\ pos = BLen(BRead(file.data, 0, 4))
        /\ iters = <<>>
        /\ inst.header = before.header
        /\ inst.data_blocks = before.data_blocks

\* An instance that holds a package read before was given a file whose
\* magic has a changed byte, and raised ValueError.
C4_Witness ==
    /\ ReadDone
    /\ outcome.exc = "ValueError"
    /\ damage.cut = -1 /\ damage.flips \in {{0}, {1}, {2}, {3}}
    /\ pos = 4
    /\ Len(before.data_blocks.pairs) > 0
    /\ inst = before

\* The file holds the magic and a whole version field of another value than
\* the supported one.
OtherVersion ==
    /\ BRead(file.data, 0, 4) = MAGIC_NUMBER
    /\ UnpackU32(BRead(file.data, 4, 4)).ok
    /\ UnpackU32(BRead(file.data, 4, 4)).n # VERSION

\* C5: read_package on a file with the magic and a version other than 1
\* raises ValueError once the version is read, with the stream at offset 8:
\* no byte of the header length or the header is read, and header and
\* data_blocks are as they were before the call.
C5_VersionGateBeforeHeader ==
    outcome.op = "read_package" /\ OtherVersion =>
        /\ iters = <<>>
        /\ inst.header = before.header
        /\ inst.data_blocks = before.data_blocks
        /\ IF pc = "version" THEN pos = 4
           ELSE pc = "idle" /\ outcome.exc = "ValueError" /\ pos = 8

\* An instance that holds a package read before was given a file of
\* version 2, and raised ValueError at offset 8.
C5_Witness ==
    /\ ReadDone
    /\ outcome.exc = "ValueError"
    /\ BRead(file.data, 0, 4) = MAGIC_NUMBER
    /\ UnpackU32(BRead(file.data, 4, 4)).n = 2
    /\ pos = 8
    /\ Len(before.header.pairs) > 0
    /\ inst = before

\* C6 (as stated): after read_package returns, get_metadata() equals the
\* header record _create_header built, field for field.
C6_HeaderEqualsBuilt == Returned => GetMetadata(inst) = BuiltHeader

\* C6 (amended): after read_package returns, get_metadata() equals the
\* header record _create_header built as JSON carries it: field for field,
\* a tuple (a bbox given as a tuple) read back as a list of the same items.
C6_HeaderEqualsCarried == Returned => GetMetadata(inst) = JsonNorm(BuiltHeader)

\* A package of two blocks whose bbox was given as a tuple was read back,
\* the bbox as a list.
C6_Witness ==
    /\ Returned
    /\ Item(made.args.project_info, PStr("bbox")).t = "tuple"
    /\ ExpectedNames(made.args) = <<PStr("heightmap"), PStr("osm_data")>>
    /\ Item(Item(GetMetadata(inst), PStr("project")), PStr("bbox")).t = "list"
    /\ Item(GetMetadata(inst), PStr("data_blocks")).items = ExpectedNames(made.args)

C8_OtherBlocksStillLoaded ==
    \A i \in 1..Len(Keys(Layout)) :
        ReadDone /\ OneByteChangedIn(Keys(Layout)[i]) =>
            \A j \in 1..Len(Keys(Layout)) :
                j # i => HasKey(inst.data_blocks, Keys(Layout)[j])

\* C9: read_package on any file ends in one of two ways: it returns, or it
\* raises ValueError.
C9_ReturnsOrValueError == ReadDone => outcome.exc = "none" \/ IsValueError(outcome.exc)

OnlyTailDiffers ==
    /\ kept.held /\ kept.made = made /\ kept.damage = NoDamage
    /\ damage.cut = -1 /\ damage.flips # {}
    /\ damage.flips \subseteq TailSpots(file.data)

\* C11: of two written files that differ only in their final 32 bytes, both
\* reads return without an exception, with equal header and equal
\* data_blocks.
C11_TailIsNotRead ==
    (ReadDone /\ OnlyTailDiffers) =>
        /\ outcome.exc = "none"
        /\ inst.header = kept.inst.header
        /\ inst.data_blocks = kept.inst.data_blocks

\* Two create_package calls of the same arguments, each file read as
\* written: the instance kept from the first and the instance of the second.
SameArgsTwice ==
    /\ Returned /\ damage = NoDamage
    /\ kept.held /\ kept.damage = NoDamage
    /\ kept.made.args = made.args /\ kept.made.now # made.now

\* The header without the time stamp of its "created" field.
Unstamped(header) == SetItem(header, PStr("created"), PNone)

\* C12 (as stated): two create_package calls of identical arguments give
\* files that read back with equal header and equal data_blocks.
C12_SameContentTwice ==
    SameArgsTwice =>
        /\ GetMetadata(inst) = GetMetadata(kept.inst)
        /\ inst.data_blocks = kept.inst.data_blocks

\* C12 (amended): two create_package calls of identical arguments give files
\* that read back with equal data_blocks and with headers equal in every
\* field but "created".
C12_SameButCreated ==
    SameArgsTwice =>
        /\ Unstamped(GetMetadata(inst)) = Unstamped(GetMetadata(kept.inst))
        /\ inst.data_blocks = kept.inst.data_blocks

\* Both files of a package of four blocks are read, and their headers differ.
C12_Witness ==
    /\ SameArgsTwice
    /\ Len(inst.data_blocks.pairs) = 4
    /\ GetMetadata(inst) # GetMetadata(kept.inst)

\* create_package has left a file.
FileWritten == pc = "idle" /\ outcome.op = "create_package" /\ file.exists

RECURSIVE BlocksLaidOut(_, _, _, _)
\* The index entries from the i-th on describe the blocks that lie in data
\* one after the other from offset at: the entry's offset is the offset of
\* the 4-byte length of the metadata record that names the block, and its
\* size is 4 + the length of that record + the length of the payload.
BlocksLaidOut(data, entries, i, at) ==
    \/ i > Len(entries)
    \/ LET e == entries[i].val
           mlen == UnpackU32(BRead(data, at, 4))
           hdr == JsonLoads(BRead(data, at + 4, mlen.n))
       IN /\ Item(e, PStr("offset")) = PInt(at)
          /\ mlen.ok /\ hdr.ok
          /\ Item(hdr.doc, PStr("name")) = entries[i].key
          /\ Item(hdr.doc, PStr("compressed_size")) = Item(e, PStr("compressed_size"))
          /\ Item(e, PStr("size")).n
                = 4 + mlen.n + Item(e, PStr("compressed_size")).n
          /\ BlocksLaidOut(data, entries, i + 1, at + Item(e, PStr("size")).n)

\* The sum of the sizes of the index entries.
SizeOfBlocks(entries) ==
    SumSeq([i \in 1..Len(entries) |-> Item(entries[i].val, PStr("size")).n])

\* The file is magic, version, header_len, header, the blocks of the index,
\* index_len, index and digest_len more bytes, and nothing else.
SectionsLaidOut(digest_len) ==
    LET data == file.data
        hlen == UnpackU32(BRead(data, 8, 4))
        entries == inst.index.pairs
        blocks_end == 12 + hlen.n + SizeOfBlocks(entries)
        ilen == UnpackU32(BRead(data, blocks_end, 4))
        index == JsonLoads(BRead(data, blocks_end + 4, ilen.n))
    IN /\ BRead(data, 0, 4) = MAGIC_NUMBER
       /\ BRead(data, 4, 4) = PackU32(VERSION)
       /\ hlen.ok
       /\ BRead(data, 12, hlen.n) = HeaderBytes(inst.header)
       /\ BlocksLaidOut(data, entries, 1, 12 + hlen.n)
       /\ ilen.ok /\ index.ok
       /\ index.doc = JsonNorm(inst.index)
       /\ BLen(data) = blocks_end + 4 + ilen.n + digest_len

\* C13: a file written by create_package is magic(4), version(4),
\* header_len(4), header, blocks, index_len(4), index, digest(32) with no
\* padding; each index entry's offset is the position of the block's length
\* prefix, its size is 4 + metadata length + compressed length, and the file
\* size is the sum of the fields.
C13_LayoutEndsWithDigest == FileWritten => SectionsLaidOut(CHECKSUM_ROOM)

\* The sections in front of the digest are laid out as C13 says.
LayoutWithoutDigest == FileWritten => SectionsLaidOut(0)

\* The metadata record that lies in data at offset at, and the bytes that
\* follow it, as many as its compressed_size says.
RecordAt(data, at) ==
    LET mlen == UnpackU32(BRead(data, at, 4)).n
        hdr == JsonLoads(BRead(data, at + 4, mlen)).doc
    IN [hdr |-> hdr,
        payload |-> BRead(data, at + 4 + mlen, Item(hdr, PStr("compressed_size")).n),
        end |-> at + 4 + mlen + Item(hdr, PStr("compressed_size")).n]

\* The i-th block of the file as written: its record, its payload and the
\* raw buffer its data was encoded to.
WrittenBlockIsSealed(i) ==
    LET b == Blocks(made.args)[i]
        e == Item(inst.index, PStr(b.name))
        at == Item(e, PStr("offset")).n
        rec == RecordAt(file.data, at)
        raw == EncodePayload(b.data).raw
    IN /\ Item(rec.hdr, PStr("checksum")) = PMd5Hex(rec.payload)
       /\ Item(rec.hdr, PStr("checksum")) # PMd5Hex(raw)
       /\ rec.payload = Compress(raw)
       /\ Item(rec.hdr, PStr("compressed_size")) = PInt(BLen(rec.payload))
       /\ rec.end = at + Item(e, PStr("size")).n
       /\ Item(rec.hdr, PStr("uncompressed_size")) = PInt(BLen(raw))

\* C14: in a written file every block's record holds the MD5 of the
\* compressed payload bytes (not of the raw buffer), the number of payload
\* bytes that follow the record as compressed_size and the length of the raw
\* buffer as uncompressed_size; and read_package stores a block only if the
\* MD5 of the compressed_size bytes it read equals the checksum of the record.
C14_DigestOfCompressedBytes ==
    /\ FileWritten =>
          \A i \in 1..Len(Blocks(made.args)) : WrittenBlockIsSealed(i)
    /\ outcome.op = "read_package" =>
          \A i \in 1..Len(iters) :
              iters[i].why = "stored" =>
                  LET rec == RecordAt(file.data, iters[i].at)
                  IN /\ PMd5Hex(rec.payload) = Item(rec.hdr, PStr("checksum"))
                     /\ HasKey(inst.data_blocks, Item(rec.hdr, PStr("name")))

\* A file of two blocks with one byte of the second payload changed was read:
\* the first block was stored, the second was not.
C14_Witness ==
    /\ Returned
    /\ made.args.satellite # PNone
    /\ OneByteChangedIn(PStr("satellite"))
    /\ Len(iters) = 2
    /\ iters[1].why = "stored" /\ iters[2].why = "checksum"
    /\ ListDataBlocks(inst) = <<PStr("heightmap")>>

\* A reader calls an accessor.
AccessorCalled == \E r \in Readers, call \in Calls : Access(r, call)

\* What every reader last got is what the same call returns now, to any
\* reader.
SeenByAll ==
    \A r \in Readers :
        seen[r].op # "none" =>
            seen[r].val = ReturnOf([op |-> seen[r].op, arg |-> seen[r].arg], inst)

\* C15: after read_package returned, no accessor call changes header or
\* data_blocks, and whatever the readers' calls and their order, each reader
\* got what a single reader gets from the instance.
C15_AccessorsLeaveThePackage ==
    /\ []SeenByAll
    /\ [][AccessorCalled =>
            /\ inst'.header = inst.header
            /\ inst'.data_blocks = inst.data_blocks]_vars

\* Both readers called get_heightmap on a package that holds one, one after
\* the other.
C15_Witness ==
    /\ Returned
    /\ seen[1].op = "get_heightmap" /\ seen[2].op = "get_heightmap"
    /\ seen[1].val = PArray("float32", <<2, 2>>, <<0, 1, 2, 3>>)
    /\ seen[2].val = seen[1].val

\* The argument of create_package a get_* call asks for.
PassedFor(call, a) ==
    CASE call.op = "get_heightmap" -> a.heightmap
      [] call.op = "get_satellite" -> a.satellite
      [] call.op = "get_material" ->
             IF a.materials = PNone THEN PNone
             ELSE DictGet(a.materials, PStr(call.arg))
      [] call.op = "get_osm_data" -> a.osm_data
      [] call.op = "get_vegetation" -> a.vegetation
      [] call.op = "get_tactical" -> a.tactical

\* The material names passed to create_package.
MaterialNames(a) ==
    IF a.materials = PNone THEN {}
    ELSE {a.materials.pairs[i].key : i \in 1..Len(a.materials.pairs)}

\* The blocks of data_blocks whose name starts with "material_".
MaterialBlocksLoaded(self) ==
    {i \in 1..Len(self.data_blocks.pairs) :
        StartsWith(self.data_blocks.pairs[i].key.s, "material_")}

WrapperDone == wrapper.pc \in {"returned", "raised"}
\* The i-th call of the wrapped function raised an exception that
\* `except exceptions` catches.
RaisedInE(i) ==
    wrapper.calls[i] # "none" /\ Matches(wrapper.calls[i], wrapper.exceptions)
\* Every call of the wrapped function so far raised an exception in E.
AllRaisedInE == \A i \in 1..Len(wrapper.calls) : RaisedInE(i)
\* The exception the i-th call raised.
ExcOfCall(i) == [type |-> wrapper.calls[i], call |-> i]

\* What C17 says of a wrapper of max_attempts = n: at most n calls; a return
\* after k calls follows k-1 calls that raised in E; and when every call
\* raised in E the n-th call's exception is raised after exactly n calls.
AtMostNCalls ==
    /\ Len(wrapper.calls) <= wrapper.max_attempts
    /\ wrapper.pc = "returned" =>
          /\ wrapper.calls[Len(wrapper.calls)] = "none"
          /\ \A i \in 1..(Len(wrapper.calls) - 1) : RaisedInE(i)
    /\ (WrapperDone /\ AllRaisedInE) =>
          /\ wrapper.pc = "raised"
          /\ Len(wrapper.calls) = wrapper.max_attempts
          /\ wrapper.raised = ExcOfCall(wrapper.max_attempts)

\* C17: retry(max_attempts=n, exceptions=E) calls the wrapped function at
\* most n times, returns the first successful result after exactly k calls
\* when the first k-1 calls raised in E, and raises the n-th call's exception
\* after exactly n calls when all n calls raised in E.
C17_AtMostNCalls == AtMostNCalls

\* The same of the wrappers of max_attempts >= 1.
AtMostNCallsFromOne == wrapper.max_attempts >= 1 => AtMostNCalls

\* An exception that is an instance of no class of the exceptions tuple is
\* not retried: the call that raised it is the last, no sleep and no callback
\* follow it, and every call before it raised in E; raised by the first
\* call, it reaches the caller after exactly one call, with no sleep and no
\* callback.
UncaughtIsNotRetried ==
    (wrapper.pc = "raised" /\ ~Matches(wrapper.raised.type, wrapper.exceptions)) =>
        /\ wrapper.raised = ExcOfCall(Len(wrapper.calls))
        /\ \A i \in 1..(Len(wrapper.calls) - 1) : RaisedInE(i)
        /\ Len(wrapper.slept) = Len(wrapper.calls) - 1
        /\ Len(wrapper.called_back) <= Len(wrapper.calls) - 1
        /\ ~Matches(wrapper.calls[1], wrapper.exceptions) =>
               /\ Len(wrapper.calls) = 1
               /\ wrapper.slept = <<>>
               /\ wrapper.called_back = <<>>

\* The first call of a function decorated with retry(exceptions=
\* (NetworkError,)) ran `raise ValidationError(message)`, and the wrapper
\* is done.
ValidationErrorAsked ==
    /\ WrapperDone
    /\ wrapper.max_attempts >= 1
    /\ wrapper.exceptions = <<"NetworkError">>
    /\ wrapper.asked[1] = "ValidationError"

\* C18: an exception that the exceptions tuple does not hold is not
\* retried, it reaches the caller after one call with no sleep and no
\* callback; a ValidationError raised inside a function decorated with
\* retry(exceptions=(NetworkError,)) reaches the caller as ValidationError
\* after one attempt.
C18_ValidationErrorNotRetried ==
    /\ UncaughtIsNotRetried
    /\ ValidationErrorAsked =>
          /\ wrapper.pc = "raised"
          /\ wrapper.raised.type = "ValidationError"
          /\ Len(wrapper.calls) = 1

RECURSIVE Pow(_, _)
Pow(b, k) == IF k = 0 THEN 1 ELSE b * Pow(b, k - 1)

\* Every one of the max_attempts attempts failed, and the exception has
\* reached the caller.
EveryAttemptFailed ==
    /\ wrapper.pc = "raised"
    /\ wrapper.max_attempts >= 1
    /\ Len(wrapper.calls) = wrapper.max_attempts
    /\ AllRaisedInE

\* The waits delay, delay*backoff, ..., one for each of the first n attempts.
Backoffs(n) == [i \in 1..n |-> wrapper.delay * Pow(wrapper.backoff, i - 1)]

\* C19: when every one of max_attempts attempts failed, the wrapper has
\* waited after each failed attempt, max_attempts times, for delay,
\* delay*backoff, delay*backoff^2, ...
C19_WaitsAfterEveryFailure ==
    EveryAttemptFailed => wrapper.slept = Backoffs(wrapper.max_attempts)

\* The waits are those of every failed attempt but the last.
WaitsBetweenAttempts ==
    EveryAttemptFailed => wrapper.slept = Backoffs(wrapper.max_attempts - 1)

\* C20: on_retry is called once for each failed attempt that another attempt
\* follows, with the 1-based number of the attempt and its exception, before
\* the wait of that attempt; it is not called for an attempt that returned
\* nor for the last failed attempt; and an exception the callback raises
\* does not end the retrying.
C20_CallbackPerRetriedFailure ==
    LET cb == wrapper.called_back
        retried == Len(wrapper.slept) + (IF wrapper.pc = "sleep" THEN 1 ELSE 0)
    IN /\ Len(cb) = IF wrapper.on_retry = "none" THEN 0 ELSE retried
       /\ \A j \in 1..Len(cb) :
              /\ cb[j].attempt = j
              /\ cb[j].e = ExcOfCall(j)
              /\ RaisedInE(j)
              /\ j < wrapper.max_attempts
              /\ cb[j].slept = j - 1
              /\ cb[j].raises # "none" =>
                     /\ wrapper.raised.type # cb[j].raises
                     /\ wrapper.pc = "sleep" \/ Len(wrapper.slept) >= j
       /\ WrapperDone =>
              Len(cb) = IF wrapper.on_retry = "none" THEN 0
                        ELSE Len(wrapper.calls) - 1

\* The third attempt returned after two failed ones; the callback was called
\* for both and raised in its first call.
C20_Witness ==
    /\ wrapper.pc = "returned"
    /\ wrapper.exceptions = <<"Exception">>
    /\ wrapper.calls = <<"NetworkError", "ValueError", "none">>
    /\ Len(wrapper.called_back) = 2
    /\ wrapper.called_back[1].raises = "RuntimeError"
    /\ wrapper.called_back[2].attempt = 2

\* The argument is four numbers inside the limits of C21.
GoodBbox(bbox) ==
    /\ bbox.t = "tuple" /\ Len(bbox.items) = 4
    /\ \A i \in 1..4 : IsNumber(bbox.items[i])
    /\ -LON_LIMIT <= bbox.items[1].n /\ bbox.items[1].n < bbox.items[3].n
    /\ bbox.items[3].n <= LON_LIMIT
    /\ -LAT_LIMIT <= bbox.items[2].n /\ bbox.items[2].n < bbox.items[4].n
    /\ bbox.items[4].n <= LAT_LIMIT
    /\ bbox.items[3].n - bbox.items[1].n \in MIN_SIZE..MAX_SIZE
    /\ bbox.items[4].n - bbox.items[2].n \in MIN_SIZE..MAX_SIZE

\* validate_bbox returns a good bbox as it is.
GoodBboxIsReturned ==
    (validated.called /\ GoodBbox(validated.bbox)) =>
        validated.exc = "none" /\ validated.ret = validated.bbox

\* C21: validate_bbox returns the bbox unchanged when it is four numbers
\* inside the limits, and for every other input raises ValidationError, no
\* other type, with the failed check in its field attribute.
C21_ValidOrValidationError ==
    validated.called =>
        IF GoodBbox(validated.bbox)
        THEN validated.exc = "none" /\ validated.ret = validated.bbox
        ELSE /\ validated.exc = "ValidationError"
             /\ validated.field
                  \in {"bounding_box", "longitude", "latitude", "area_size"}

\* The first n items of a sequence.
FirstN(seq, n) == IF n <= Len(seq) THEN SubSeq(seq, 1, n) ELSE seq
\* A sequence is the start of another.
IsPrefix(short, long) ==
    Len(short) <= Len(long) /\ short = SubSeq(long, 1, Len(short))

IndexStart == BLen(WriteBlocks(made.args, BuiltHeader, PDict(<<>>)).data)
\* The pass of the block scan that started at the index record, if any.
PassesAtIndex == {i \in 1..Len(iters) : iters[i].at = IndexStart}

\* The block scan of a written file takes the index record for a candidate
\* block: it reads and parses it, finds no compressed_size in it and leaves
\* the loop behind the record.
IndexIsParsedAsCandidate ==
    Returned /\ damage = NoDamage =>
        \A i \in PassesAtIndex :
            /\ iters[i].why = "field"
            /\ pos > IndexStart + 4

\* C23: the block scan of a written file stops at the start of the index
\* record by the boundary rule, on the index's length prefix, and never
\* reads or decodes the index bytes as a candidate block record.
C23_IndexStopsTheScanUnread ==
    Returned /\ damage = NoDamage =>
        \A i \in PassesAtIndex :
            /\ iters[i].why = "boundary"
            /\ pos = IndexStart

\* Every pass of the block scan started below file_size - 32, and 4 bytes
\* or more behind the start of the pass before it.
PassesStartInRoom ==
    pc = "blocks" \/ ReadDone =>
        \A i \in 1..Len(iters) :
            /\ iters[i].at < BLen(file.data) - CHECKSUM_ROOM
            /\ i > 1 => iters[i].at >= iters[i - 1].at + 4
\* A step of the block scan that stays in the loop moves the file position
\* forward by 4 bytes or more.
PassAdvances == pc = "blocks" /\ pc' = "blocks" => pos' >= pos + 4

\* C24: each pass of the block-scan loop leaves the loop or advances the
\* file position by at least 4 bytes, and no pass starts at file_size - 32 or
\* behind it: the loop ends on every file.
C24_ScanAdvancesOrLeaves == []PassesStartInRoom /\ [][PassAdvances]_vars

\* A file cut short was read: two blocks were stored, one pass after the
\* other, and the loop ended by its condition.
C24_Witness ==
    /\ Returned
    /\ damage.cut >= 0
    /\ Len(iters) = 2
    /\ \A i \in 1..2 : iters[i].why = "stored"
    /\ pos >= BLen(file.data) - CHECKSUM_ROOM

\* The offset of the end of the header record of the file as written.
HeaderEnd == 12 + BLen(HeaderBytes(BuiltHeader))
\* The file was cut at or behind the end of its header record, and no byte
\* of it was changed.
CutBehindHeader == damage.cut >= HeaderEnd /\ damage.flips = {}
\* The names of the blocks that lie wholly in the first n bytes of the file
\* as written, in write order.
BlocksInside(n) ==
    SelectSeq(Keys(Layout),
              LAMBDA name : Item(Item(Layout, name), PStr("offset")).n
                            + Item(Item(Layout, name), PStr("size")).n <= n)

Artifacts ==
    {"heightmap", "satellite", "materials", "osm_data", "vegetation", "tactical",
     "profile_config"}
PresentArtifacts(a) == {f \in Artifacts : a[f] # PNone}
\* The data_blocks list and the content record of the header of the file.
ListedBlocks == Item(BuiltHeader, PStr("data_blocks")).items
PresenceFlags == Keys(Item(BuiltHeader, PStr("content")))

\* The header lists every block written but the profile block, and holds one
\* presence entry for every artifact written but the profile.
HeaderListsAllButProfile ==
    FileWritten =>
        /\ ListedBlocks = SelectSeq(Keys(Layout), LAMBDA name : name # PStr("profile"))
        /\ Len(PresenceFlags)
             = Cardinality(PresentArtifacts(made.args) \ {"profile_config"})

\* C26: the header's data_blocks list is the sequence of the names of the
\* blocks written to the file, in write order, the profile block included,
\* and the header holds a presence entry for every artifact written.
C26_HeaderListsEveryBlock ==
    FileWritten =>
        /\ ListedBlocks = Keys(Layout)
        /\ Len(PresenceFlags) = Cardinality(PresentArtifacts(made.args))

\* The record and the payload of the first block of the file.
FirstRecord == RecordAt(file.data, FirstBlockAt(file.data))
\* The record of a written block describes its payload: numpy with the
\* array's dtype and shape, bytes with neither and the bytes themselves
\* compressed, json for every other value.
TaggedByKind(rec, data) ==
    CASE data.t = "ndarray" ->
             /\ Item(rec.hdr, PStr("type")) = PStr("numpy")
             /\ Item(rec.hdr, PStr("dtype")) = PStr(data.dtype)
             /\ Item(rec.hdr, PStr("shape")) = IntList(data.shape)
      [] data.t = "bytes" ->
             /\ Item(rec.hdr, PStr("type")) = PStr("bytes")
             /\ Item(rec.hdr, PStr("dtype")) = PNone
             /\ Item(rec.hdr, PStr("shape")) = PNone
             /\ rec.payload = Compress(data.data)
      [] OTHER ->
             /\ Item(rec.hdr, PStr("type")) = PStr("json")
             /\ Item(rec.hdr, PStr("dtype")) = PNone
             /\ Item(rec.hdr, PStr("shape")) = PNone
\* The value read_package stored for a block is the one its record's type
\* tag asks for.
DecodedByTag(rec, data, self) ==
    LET name == Item(rec.hdr, PStr("name"))
        tag == Item(rec.hdr, PStr("type"))
        raw == Decompress(rec.payload).raw
    IN IF tag = PStr("numpy")
       THEN Rebuildable(data) =>
               /\ HasKey(self.data_blocks, name)
               /\ Item(self.data_blocks, name)
                    = PArray(Item(rec.hdr, PStr("dtype")).s, data.shape, data.elems)
       ELSE IF tag = PStr("json")
       THEN /\ HasKey(self.data_blocks, name)
            /\ Item(self.data_blocks, name) = JsonLoads(raw).doc
       ELSE /\ HasKey(self.data_blocks, name)
            /\ Item(self.data_blocks, name) = PBytes(raw)

\* C27: _write_data_block tags an array numpy with its dtype and shape, a
\* bytes object bytes with null dtype and shape and its bytes verbatim, and
\* every other value json; read_package decodes a numpy block by the dtype
\* and shape of its record, a json block by JSON parsing, and stores a block
\* of any other tag as its bytes, without raising.
C27_DispatchOnPayloadKind ==
    /\ FileWritten =>
          \A i \in 1..Len(Blocks(made.args)) :
              TaggedByKind(
                  RecordAt(file.data,
                           Item(Item(Layout, PStr(Blocks(made.args)[i].name)),
                                PStr("offset")).n),
                  Blocks(made.args)[i].data)
    /\ ReadDone => outcome.exc = "none"
    /\ Returned /\ Blocks(made.args) # <<>> =>
          DecodedByTag(FirstRecord, Blocks(made.args)[1].data, inst)

\* An array block that carries the type tag of another producer was read:
\* the block is stored as the bytes of the array's buffer.
C27_Witness ==
    /\ Returned
    /\ Blocks(made.args) # <<>>
    /\ Blocks(made.args)[1].data.t = "ndarray"
    /\ Item(FirstRecord.hdr, PStr("type")) = PStr("raw")
    /\ HasKey(inst.data_blocks, PStr("heightmap"))
    /\ Item(inst.data_blocks, PStr("heightmap"))
         = PBytes(Whole(NpBuf("float32", <<0, 1, 2, 3>>)))

\* The length of the metadata record of the written block called name.
RecordLen(name) ==
    UnpackU32(BRead(file.data, Item(Item(Layout, name), PStr("offset")).n, 4)).n
\* The boundary rule ended the block scan.
BoundaryFired == \E i \in 1..Len(iters) : iters[i].why = "boundary"

\* The record of a block whose name is of 100 characters at most is within
\* the limit, and the scan of a file of such blocks reaches every block.
ShortNamesStayUnderLimit ==
    (\A i \in 1..Len(Keys(Layout)) : Len(Keys(Layout)[i].s) <= 100) =>
        /\ FileWritten =>
              \A i \in 1..Len(Keys(Layout)) :
                  RecordLen(Keys(Layout)[i]) <= MAX_BLOCK_HEADER
        /\ Returned =>
              ~BoundaryFired /\ ListDataBlocks(inst) = ExpectedNames(made.args)

\* C28: every block metadata record _write_data_block emits is at most
\* 100000 bytes long, the boundary rule of read_package never fires on a
\* block, and the scan reaches every block written.
C28_EveryRecordUnderTheLimit ==
    /\ FileWritten =>
          \A i \in 1..Len(Keys(Layout)) :
              RecordLen(Keys(Layout)[i]) <= MAX_BLOCK_HEADER
    /\ Returned =>
          ~BoundaryFired /\ ListDataBlocks(inst) = ExpectedNames(made.args)

\* The index record of the file, read back from its bytes.
IndexOfFile == MetaAt(file.data, IndexStart)

\* The index of a written file holds the entry of every block of the file,
\* and after the entries of the packages the instance wrote before.
IndexHoldsEveryBlockWritten ==
    FileWritten =>
        /\ \A i \in 1..Len(Keys(Layout)) :
              /\ HasKey(IndexOfFile, Keys(Layout)[i])
              /\ Item(IndexOfFile, Keys(Layout)[i]) = Item(Layout, Keys(Layout)[i])
        /\ \A i \in 1..Len(Keys(before.index)) :
              HasKey(IndexOfFile, Keys(before.index)[i])

\* C29: after any sequence of create_package calls on one instance, the
\* index of the latest file holds one entry for each block written to that
\* file and no entry of a block of an earlier package.
C29_IndexOfLatestFileOnly ==
    FileWritten =>
        /\ Len(Keys(IndexOfFile)) = Len(Keys(Layout))
        /\ \A i \in 1..Len(Keys(IndexOfFile)) : HasKey(Layout, Keys(IndexOfFile)[i])

\* After read_package returns, data_blocks holds every block of the file
\* read, and besides them only blocks the instance held before the call.
HoldsLatestAndEarlierBlocks ==
    Returned =>
        /\ \A i \in 1..Len(Keys(Layout)) : HasKey(inst.data_blocks, Keys(Layout)[i])
        /\ \A i \in 1..Len(ListDataBlocks(inst)) :
              \/ HasKey(Layout, ListDataBlocks(inst)[i])
              \/ HasKey(before.data_blocks, ListDataBlocks(inst)[i])

\* C30: after any sequence of read_package calls on one instance,
\* data_blocks holds exactly the blocks decoded from the file read last: no
\* accessor and no list_data_blocks() returns a block of an earlier file only.
C30_OnlyBlocksOfLatestFile ==
    Returned =>
        /\ ListDataBlocks(inst) = ExpectedNames(made.args)
        /\ (made.args.heightmap = PNone => GetHeightmap(inst) = PNone)
        /\ (made.args.satellite = PNone => GetSatellite(inst) = PNone)

====
